---- MODULE Spec2Model ----
(***************************************************************************)
(* HoloCompute DSM coherence engine: the lease manager, the 2Q page cache, *)
(* the memory manager with its array registry, and the shared-array API    *)
(* (Get / Set / Sync) layered on top of them.                              *)
(*                                                                         *)
(* Every exported method of LeaseManager and PageCache runs under the      *)
(* component's mutex for its whole body, so each call is one atomic        *)
(* action.  time.Now() is the variable now, advanced by Tick.  uuid.New()  *)
(* is a fresh counter.  Go pointers to Lease objects are lease ids into    *)
(* heap; the lease table maps a page key to such a pointer.               *)
(***************************************************************************)
EXTENDS Integers, Sequences, FiniteSets, TLC

VARIABLES
    leases,      \* LeaseManager.leases : leaseKey -> *Lease (0 = no entry)
    heap,        \* the Lease objects the pointers refer to, by lease id
    held,        \* per requester, the lease pointers AcquireLease returned to it
    now,         \* time.Now()
    nextID,      \* next uuid handed out for a LeaseID
    capacity,    \* PageCache.capacity
    cache,       \* PageCache.cache : the set of indexed cacheKeys
    onceList,    \* PageCache.onceList, front first
    freqList,    \* PageCache.freqList, front first
    arrays,      \* per node, MemoryManager.arrays : the registered ArrayIDs
    arrayObj,    \* the Array objects, by ArrayID
    pages,       \* per node, MemoryManager.pages : pageKey -> *Page
    nextArrayID, \* next uuid handed out for an ArrayID
    writes,      \* per (array, index), the last Set that returned nil and
                 \* whether a Sync by the same node returned nil after it
    calls,       \* per goroutine, the call it is in, its position and its locals
    nextPage,    \* next address the allocator hands out for a Page
    store,       \* pageStorage.data of one page: offset -> byte, zero bytes left out
    group,       \* one ParallelFor call: its loop, its errgroup and its tasks
    red,         \* one Reduce call: its two errgroups, mapped, *result and mu
    sched,       \* one Scheduler: its task table, its channel, its run loop
                 \* and the progress of each task
    ret          \* the last call: its name, arguments, error and value

leaseVars == <<leases, heap, held, now, nextID>>
cacheVars == <<capacity, cache, onceList, freqList>>
mmVars    == <<arrays, arrayObj, pages, nextArrayID, writes>>
glpVars   == <<calls, nextPage>>
vars      == <<leases, heap, held, now, nextID, capacity, cache, onceList,
               freqList, arrays, arrayObj, pages, nextArrayID, writes,
               calls, nextPage, store, group, red,
               sched, ret>>

----------------------------------------------------------------------------
(* Bounds and input sets *)

MaxTime   == 3
MaxLeases == 2
TTL       == 1

Nodes     == {"n1", "n2"}
Clients   == Nodes
ArrayIDs  == {1, 2}
PageIDs   == {0, 1}
Versions  == {1}

ReadLease  == 0
WriteLease == 1
LeaseTypes == {ReadLease, WriteLease}

LeaseIDs  == 1 .. MaxLeases
LeaseKeys == [arrayID : ArrayIDs, pageID : PageIDs]
\* The page the lease manager's callers contend for.  The manager decides every
\* key on that key's entry alone, so one key carries the whole conflict matrix.
HotKeys   == {[arrayID |-> 1, pageID |-> 0]}

MaxCapacity  == 3
MaxCachePage == 2
CacheKeys == [arrayID : {1}, pageID : 0 .. MaxCachePage]
PagePtrs  == {"p", "q"}

MaxArrays == 2
MaxVersion == 2
PageSize  == 65536
Lengths   == {1, 2}
Indexes   == -1 .. 1
Values    == {7}

NoLease == [ID |-> 0]
NoArray == [ID |-> 0]
NoNode  == ""
NoWrite == [state |-> "none"]
NoRet   == [op |-> "none", arg |-> <<>>, err |-> "", val |-> 0]

----------------------------------------------------------------------------
(* Lease manager *)

\* a key made of the array alone
leaseKeyArrayOnly(arrayID, pageID) == [arrayID |-> arrayID, pageID |-> 0]

leaseKey(arrayID, pageID) == [arrayID |-> arrayID, pageID |-> pageID]

\* lm.leases[key]: the Lease object the table holds for key k, if any
LeaseAt(k) == IF leases[k] = 0 THEN NoLease ELSE heap[leases[k]]

\* Expiry that sets in at ExpiresAt itself
ExpiredAtDeadline(lease, t) == t >= lease.ExpiresAt

\* time.Now().After(lease.ExpiresAt)
Expired(lease, t) == t > lease.ExpiresAt

\* A Lease object unreachable from the table and from every requester is
\* garbage: the collector frees it.
Collect(h, tbl, hd) ==
    [id \in LeaseIDs |->
        IF (\E k \in LeaseKeys : tbl[k] = id)
           \/ (\E c \in Clients : \E g \in hd[c] : g.id = id)
        THEN h[id] ELSE NoLease]

\* The pointers a requester still holds after the table dropped the ids in gone
\* for everybody (revocation, sweep).
Void(hd, gone) == [c \in Clients |-> {g \in hd[c] : g.id \notin gone}]

LeaseInit ==
    /\ leases = [k \in LeaseKeys |-> 0]
    /\ heap = [id \in LeaseIDs |-> NoLease]
    /\ held = [c \in Clients |-> {}]
    /\ now = 0
    /\ nextID = 1

\* AcquireDecision without the read-blocks-write test: a Write request over a
\* Read lease replaces the table entry.
AcquireDecisionNoReadCheck(existing, leaseType) ==
    IF existing = NoLease THEN "create"
    ELSE IF existing.Type = WriteLease THEN "conflict"
    ELSE IF leaseType = WriteLease THEN "create"
    ELSE "extend"

\* AcquireDecision that answers a Read over a Read lease with a new lease
AcquireDecisionReadRecreates(existing, leaseType) ==
    IF existing = NoLease THEN "create"
    ELSE IF existing.Type = WriteLease THEN "conflict"
    ELSE IF existing.Type = ReadLease /\ leaseType = WriteLease THEN "conflict"
    ELSE "create"

\* The decision AcquireLease takes on the existing table entry:
\* "conflict", "extend" (return the existing read lease) or "create".
AcquireDecision(existing, leaseType) ==
    IF existing = NoLease THEN "create"
    ELSE IF existing.Type = WriteLease THEN "conflict"
    ELSE IF existing.Type = ReadLease /\ leaseType = WriteLease THEN "conflict"
    ELSE "extend"

\* val is the LeaseID of the lease returned; created tells whether the call
\* built the lease (and logged "acquired lease") or returned the existing one.
AcquireLease(arrayID, pageID, leaseType, owner, version) ==
    LET key      == leaseKey(arrayID, pageID)
        existing == LeaseAt(key)
        decision == AcquireDecision(existing, leaseType)
        arg      == [key |-> key, type |-> leaseType, owner |-> owner]
    IN  CASE decision = "conflict" ->
               /\ ret' = [op |-> "AcquireLease", arg |-> arg,
                          err |-> "conflict", val |-> 0, created |-> FALSE]
               /\ UNCHANGED leaseVars
          [] decision = "extend" ->
               /\ heap' = [heap EXCEPT ![existing.ID].ExpiresAt = now + TTL]
               /\ held' = [held EXCEPT ![owner] =
                              @ \cup {[id |-> existing.ID, type |-> leaseType]}]
               /\ ret' = [op |-> "AcquireLease", arg |-> arg,
                          err |-> "ok", val |-> existing.ID, created |-> FALSE]
               /\ UNCHANGED <<leases, now, nextID>>
          [] decision = "create" ->
               /\ nextID <= MaxLeases
               /\ leases' = [leases EXCEPT ![key] = nextID]
               /\ held' = [held EXCEPT ![owner] =
                              @ \cup {[id |-> nextID, type |-> leaseType]}]
               /\ heap' = Collect(
                              [heap EXCEPT ![nextID] =
                                  [ID |-> nextID, ArrayID |-> arrayID,
                                   PageID |-> pageID, Type |-> leaseType,
                                   Owner |-> owner, ExpiresAt |-> now + TTL,
                                   Version |-> version]],
                              leases', held')
               /\ nextID' = nextID + 1
               /\ ret' = [op |-> "AcquireLease", arg |-> arg,
                          err |-> "ok", val |-> nextID, created |-> TRUE]
               /\ UNCHANGED now

\* A LeaseID is a uuid that only AcquireLease hands out: a caller can name the
\* id of a lease it was returned, or an id that denotes no lease at all.
KnowsID(caller, leaseID) ==
    \/ \E g \in held[caller] : g.id = leaseID
    \/ heap[leaseID] = NoLease

\* ReleaseLease that reports success and leaves the table entry in place
ReleaseLeaseKeepsEntry(caller, leaseID) ==
    LET arg   == [id |-> leaseID, caller |-> caller]
    IN  /\ ret' = [op |-> "ReleaseLease", arg |-> arg,
                   err |-> IF \E k \in LeaseKeys : leases[k] = leaseID
                           THEN "ok" ELSE "notfound",
                   val |-> 0]
        /\ UNCHANGED leaseVars

\* ReleaseLease(leaseID), called by requester caller.  The caller gives up its
\* pointer whatever the outcome.
ReleaseLease(caller, leaseID) ==
    LET arg   == [id |-> leaseID, caller |-> caller]
        mine  == [held EXCEPT ![caller] = {g \in @ : g.id # leaseID}]
    IN  IF \E k \in LeaseKeys : leases[k] = leaseID
        THEN \E k \in LeaseKeys :
               /\ leases[k] = leaseID
               /\ leases' = [leases EXCEPT ![k] = 0]
               /\ held' = mine
               /\ heap' = Collect(heap, leases', held')
               /\ ret' = [op |-> "ReleaseLease", arg |-> arg,
                          err |-> "ok", val |-> 0]
               /\ UNCHANGED <<now, nextID>>
        ELSE   /\ held' = mine
               /\ heap' = Collect(heap, leases, held')
               /\ ret' = [op |-> "ReleaseLease", arg |-> arg,
                          err |-> "notfound", val |-> 0]
               /\ UNCHANGED <<leases, now, nextID>>

\* The lease of the table whose ID is leaseID, found by the loop over lm.leases
LeaseByID(leaseID) ==
    IF \E k \in LeaseKeys : leases[k] = leaseID
    THEN heap[leaseID] ELSE NoLease

\* ValidateLease without the expiry test
ValidateOutcomeNoExpiry(existing, t) ==
    IF existing = NoLease THEN "notfound" ELSE "ok"

\* The outcome of ValidateLease for the lease found, at time t
ValidateOutcome(existing, t) ==
    IF existing = NoLease THEN "notfound"
    ELSE IF Expired(existing, t) THEN "expired"
    ELSE "ok"

\* ValidateLease(leaseID): val is the lease returned
ValidateLease(leaseID) ==
    LET existing == LeaseByID(leaseID)
        outcome  == ValidateOutcome(existing, now)
    IN  /\ ret' = [op |-> "ValidateLease", arg |-> [id |-> leaseID],
                   err |-> outcome,
                   val |-> IF outcome = "ok" THEN existing.ID ELSE 0]
        /\ UNCHANGED leaseVars

\* HasWriteLease without the expiry test
HasWriteLeaseResultNoExpiry(existing, t) ==
    IF existing = NoLease THEN FALSE ELSE existing.Type = WriteLease

\* The result of HasWriteLease for the table entry of the page, at time t
HasWriteLeaseResult(existing, t) ==
    IF existing = NoLease THEN FALSE
    ELSE IF Expired(existing, t) THEN FALSE
    ELSE existing.Type = WriteLease

HasWriteLease(arrayID, pageID) ==
    LET key == leaseKey(arrayID, pageID)
    IN  /\ ret' = [op |-> "HasWriteLease", arg |-> [key |-> key],
                   err |-> "ok",
                   val |-> HasWriteLeaseResult(LeaseAt(key), now)]
        /\ UNCHANGED leaseVars

\* RevokeLease that leaves an expired lease to the sweep
RevokeLeaseUnexpiredOnly(arrayID, pageID) ==
    LET key  == leaseKey(arrayID, pageID)
        gone == IF LeaseAt(key) # NoLease /\ ~Expired(LeaseAt(key), now)
                THEN leases[key] ELSE 0
    IN  /\ leases' = [leases EXCEPT ![key] = IF gone = 0 THEN @ ELSE 0]
        /\ held' = Void(held, {gone})
        /\ heap' = Collect(heap, leases', held')
        /\ ret' = [op |-> "RevokeLease", arg |-> [key |-> key],
                   err |-> "ok", val |-> gone]
        /\ UNCHANGED <<now, nextID>>

\* RevokeLease taking every lease of the array out of the table
RevokeLeaseWholeArray(arrayID, pageID) ==
    LET key  == leaseKey(arrayID, pageID)
        gone == {k \in LeaseKeys : k.arrayID = arrayID /\ leases[k] # 0}
    IN  /\ leases' = [k \in LeaseKeys |-> IF k \in gone THEN 0 ELSE leases[k]]
        /\ held' = Void(held, {leases[k] : k \in gone})
        /\ heap' = Collect(heap, leases', held')
        /\ ret' = [op |-> "RevokeLease", arg |-> [key |-> key],
                   err |-> "ok", val |-> leases[key]]
        /\ UNCHANGED <<now, nextID>>

\* RevokeLease(arrayID, pageID): val is the id of the lease it removed and
\* logged, 0 when the page had none
RevokeLease(arrayID, pageID) ==
    LET key == leaseKey(arrayID, pageID)
    IN  /\ leases' = [leases EXCEPT ![key] = 0]
        /\ held' = Void(held, {leases[key]})
        /\ heap' = Collect(heap, leases', held')
        /\ ret' = [op |-> "RevokeLease", arg |-> [key |-> key],
                   err |-> "ok", val |-> leases[key]]
        /\ UNCHANGED <<now, nextID>>

CleanupExpiredLeases ==
    LET expired == {k \in LeaseKeys :
                       leases[k] # 0 /\ Expired(heap[leases[k]], now)}
    IN  /\ leases' = [k \in LeaseKeys |->
                         IF k \in expired THEN 0 ELSE leases[k]]
        /\ held' = Void(held, {leases[k] : k \in expired})
        /\ heap' = Collect(heap, leases', held')
        /\ ret' = [op |-> "CleanupExpiredLeases", arg |-> <<>>,
                   err |-> "ok", val |-> Cardinality(expired)]
        /\ UNCHANGED <<now, nextID>>

\* The passing of time.  A pointer to a lease that is out of the table and past
\* its expiry is dead to its holder, which drops it.
Tick ==
    /\ now < MaxTime
    /\ now' = now + 1
    /\ held' = [c \in Clients |->
                   {g \in held[c] :
                       (\E k \in LeaseKeys : leases[k] = g.id)
                       \/ ~Expired(heap[g.id], now')}]
    /\ heap' = Collect(heap, leases, held')
    /\ ret' = [op |-> "Tick", arg |-> <<>>, err |-> "ok", val |-> now']
    /\ UNCHANGED <<leases, nextID>>

\* A step of the lease manager leaves the cache and the memory manager alone,
\* and so on for the other components.
LeaseStep(A) == A /\ UNCHANGED <<cacheVars, mmVars, glpVars, store, group, red, sched>>
CacheStep(A) == A /\ UNCHANGED <<leaseVars, mmVars, glpVars, store, group, red, sched>>
ArrayStep(A) == A /\ UNCHANGED <<leaseVars, cacheVars, glpVars, store, group, red, sched>>
PageStep(A)  == A /\ UNCHANGED <<leaseVars, cacheVars, arrays, arrayObj,
                                 nextArrayID, writes, store, group, red, sched>>

----------------------------------------------------------------------------
(* Page cache (2Q) *)

cacheKey(arrayID, pageID) == [arrayID |-> arrayID, pageID |-> pageID]

\* list.Remove(element) for the element that carries key
RemoveKey(l, key) == SelectSeq(l, LAMBDA e : e.key # key)

\* The cacheEntry the index points to for key
EntryOf(key) ==
    LET all == onceList \o freqList
    IN  all[CHOOSE i \in 1 .. Len(all) : all[i].key = key]

Front(l) == SubSeq(l, 1, Len(l) - 1)

\* evict with the two lists tried in the opposite order
evictFreqFirst(st) ==
    IF Len(st.freq) > 0
    THEN [cache |-> st.cache \ {st.freq[Len(st.freq)].key},
          once |-> st.once, freq |-> Front(st.freq)]
    ELSE IF Len(st.once) > 0
    THEN [cache |-> st.cache \ {st.once[Len(st.once)].key},
          once |-> Front(st.once), freq |-> st.freq]
    ELSE st

evict(st) ==
    IF Len(st.once) > 0
    THEN [cache |-> st.cache \ {st.once[Len(st.once)].key},
          once |-> Front(st.once), freq |-> st.freq]
    ELSE IF Len(st.freq) > 0
    THEN [cache |-> st.cache \ {st.freq[Len(st.freq)].key},
          once |-> st.once, freq |-> Front(st.freq)]
    ELSE st

\* the eviction test of Put, off by one
overCapacityOffByOne(size, cap) == size > cap + 1

\* len(pc.cache) > pc.capacity
overCapacity(size, cap) == size > cap

CacheInit ==
    /\ capacity \in 0 .. MaxCapacity
    /\ cache = {}
    /\ onceList = <<>>
    /\ freqList = <<>>

\* A cache nobody uses
CacheIdle ==
    /\ capacity = 0
    /\ cache = {}
    /\ onceList = <<>>
    /\ freqList = <<>>

\* Touch with the promotion left out: a hit entry moves to the front of the
\* list it is already in.
TouchNoPromote(entry) ==
    IF ~entry.fromFreq
    THEN /\ onceList' = <<entry>> \o RemoveKey(onceList, entry.key)
         /\ UNCHANGED freqList
    ELSE /\ freqList' = <<entry>> \o RemoveKey(freqList, entry.key)
         /\ UNCHANGED onceList

\* Touch moving an entry of the once list to the frequent list without setting
\* its flag
TouchKeepsFlag(entry) ==
    IF ~entry.fromFreq
    THEN /\ onceList' = RemoveKey(onceList, entry.key)
         /\ freqList' = <<entry>> \o RemoveKey(freqList, entry.key)
    ELSE /\ freqList' = <<entry>> \o RemoveKey(freqList, entry.key)
         /\ UNCHANGED onceList

\* The promotion both Get and Put apply to an entry that is in the cache.
Touch(entry) ==
    IF ~entry.fromFreq
    THEN /\ onceList' = RemoveKey(onceList, entry.key)
         /\ freqList' = <<[entry EXCEPT !.fromFreq = TRUE]>> \o freqList
    ELSE /\ freqList' = <<entry>> \o RemoveKey(freqList, entry.key)
         /\ UNCHANGED onceList

CacheGet(arrayID, pageID) ==
    LET key == cacheKey(arrayID, pageID)
    IN  IF key \notin cache
        THEN /\ ret' = [op |-> "CacheGet", arg |-> [key |-> key],
                        err |-> "miss", val |-> 0]
             /\ UNCHANGED cacheVars
        ELSE /\ Touch(EntryOf(key))
             /\ ret' = [op |-> "CacheGet", arg |-> [key |-> key],
                        err |-> "ok", val |-> EntryOf(key).page]
             /\ UNCHANGED <<capacity, cache>>

\* Put with the update of an entry already in the cache keeping its old page
CachePutKeepsPage(arrayID, pageID, page) ==
    LET key == cacheKey(arrayID, pageID)
        arg == [key |-> key, page |-> page]
    IN  IF key \in cache
        THEN /\ Touch(EntryOf(key))
             /\ ret' = [op |-> "CachePut", arg |-> arg, err |-> "ok",
                        val |-> {}]
             /\ UNCHANGED <<capacity, cache>>
        ELSE LET entry == [key |-> key, page |-> page, fromFreq |-> FALSE]
                 ins   == [cache |-> cache \cup {key},
                           once |-> <<entry>> \o onceList,
                           freq |-> freqList]
                 out   == IF overCapacity(Cardinality(ins.cache), capacity)
                          THEN evict(ins) ELSE ins
             IN  /\ cache' = out.cache
                 /\ onceList' = out.once
                 /\ freqList' = out.freq
                 /\ ret' = [op |-> "CachePut", arg |-> arg, err |-> "ok",
                            val |-> ins.cache \ out.cache]
                 /\ UNCHANGED capacity

\* Put returns nothing; val records the keys the call evicted.
CachePut(arrayID, pageID, page) ==
    LET key == cacheKey(arrayID, pageID)
        arg == [key |-> key, page |-> page]
    IN  IF key \in cache
        THEN /\ Touch([EntryOf(key) EXCEPT !.page = page])
             /\ ret' = [op |-> "CachePut", arg |-> arg, err |-> "ok",
                        val |-> {}]
             /\ UNCHANGED <<capacity, cache>>
        ELSE LET entry == [key |-> key, page |-> page, fromFreq |-> FALSE]
                 ins   == [cache |-> cache \cup {key},
                           once |-> <<entry>> \o onceList,
                           freq |-> freqList]
                 out   == IF overCapacity(Cardinality(ins.cache), capacity)
                          THEN evict(ins) ELSE ins
             IN  /\ cache' = out.cache
                 /\ onceList' = out.once
                 /\ freqList' = out.freq
                 /\ ret' = [op |-> "CachePut", arg |-> arg, err |-> "ok",
                            val |-> ins.cache \ out.cache]
                 /\ UNCHANGED capacity

\* Remove evicting an entry when its key is not in the cache
CacheRemoveEvictsOnMiss(arrayID, pageID) ==
    LET key == cacheKey(arrayID, pageID)
        out == evict([cache |-> cache, once |-> onceList, freq |-> freqList])
    IN  /\ ret' = [op |-> "CacheRemove", arg |-> [key |-> key],
                   err |-> "ok", val |-> 0]
        /\ IF key \notin cache
           THEN /\ cache' = out.cache
                /\ onceList' = out.once
                /\ freqList' = out.freq
                /\ UNCHANGED capacity
           ELSE /\ IF EntryOf(key).fromFreq
                   THEN /\ freqList' = RemoveKey(freqList, key)
                        /\ UNCHANGED onceList
                   ELSE /\ onceList' = RemoveKey(onceList, key)
                        /\ UNCHANGED freqList
                /\ cache' = cache \ {key}
                /\ UNCHANGED capacity

\* Remove returns nothing.
CacheRemove(arrayID, pageID) ==
    LET key == cacheKey(arrayID, pageID)
    IN  /\ ret' = [op |-> "CacheRemove", arg |-> [key |-> key],
                   err |-> "ok", val |-> 0]
        /\ IF key \notin cache
           THEN UNCHANGED cacheVars
           ELSE /\ IF EntryOf(key).fromFreq
                   THEN /\ freqList' = RemoveKey(freqList, key)
                        /\ UNCHANGED onceList
                   ELSE /\ onceList' = RemoveKey(onceList, key)
                        /\ UNCHANGED freqList
                /\ cache' = cache \ {key}
                /\ UNCHANGED capacity

CacheSize ==
    /\ ret' = [op |-> "CacheSize", arg |-> <<>>, err |-> "ok",
               val |-> Cardinality(cache)]
    /\ UNCHANGED cacheVars

CacheCapacity ==
    /\ ret' = [op |-> "CacheCapacity", arg |-> <<>>, err |-> "ok",
               val |-> capacity]
    /\ UNCHANGED cacheVars

----------------------------------------------------------------------------
(* 64-bit machine integers.  Go's int, int64 and uint64 are 64 bits wide: a   *)
(* value is its four 16-bit limbs, least significant first, in two's          *)
(* complement, so that sums and products wrap as they do in the program.      *)

LimbBase == 2 ^ 16

WordOfNat(n) == <<n % LimbBase, (n \div LimbBase) % LimbBase, 0, 0>>

NotW(x) == [i \in 1 .. 4 |-> LimbBase - 1 - x[i]]

\* x + y on 64 bits
AddW(x, y) ==
    LET s1 == x[1] + y[1]
        s2 == x[2] + y[2] + s1 \div LimbBase
        s3 == x[3] + y[3] + s2 \div LimbBase
        s4 == x[4] + y[4] + s3 \div LimbBase
    IN  <<s1 % LimbBase, s2 % LimbBase, s3 % LimbBase, s4 % LimbBase>>

NegW(x) == AddW(NotW(x), WordOfNat(1))

WordOfInt(n) == IF n >= 0 THEN WordOfNat(n) ELSE NegW(WordOfNat(-n))

\* x * k on 64 bits, for a small k
MulW(x, k) ==
    LET p1 == x[1] * k
        p2 == x[2] * k + p1 \div LimbBase
        p3 == x[3] * k + p2 \div LimbBase
        p4 == x[4] * k + p3 \div LimbBase
    IN  <<p1 % LimbBase, p2 % LimbBase, p3 % LimbBase, p4 % LimbBase>>

\* x < 0 as a signed value
IsNegW(x) == x[4] >= LimbBase \div 2

\* x < y as unsigned values
LtU(x, y) ==
    \E i \in 1 .. 4 : x[i] < y[i] /\ \A j \in (i + 1) .. 4 : x[j] = y[j]

\* x > y as signed values
GtS(x, y) == IF IsNegW(x) # IsNegW(y) THEN IsNegW(y) ELSE LtU(y, x)

\* The int value of a word known to lie in 0 .. PageSize
NatOfWord(x) == x[1] + x[2] * LimbBase

MinInt64 == <<0, 0, 0, LimbBase \div 2>>
MaxInt64 == <<LimbBase - 1, LimbBase - 1, LimbBase - 1, LimbBase \div 2 - 1>>

\* x / PageSize on 64 bits, truncated toward zero as Go's / does.  PageSize is
\* 2^16, one limb.
DivPageSizeW(x) ==
    LET shift(y) == <<y[2], y[3], y[4], 0>>
    IN  IF IsNegW(x) THEN NegW(shift(NegW(x))) ELSE shift(x)

----------------------------------------------------------------------------
(* Page / Array model and memory manager *)

\* Go's integer division, which truncates toward zero
GoDiv(a, b) == IF a >= 0 THEN a \div b ELSE -((-a) \div b)

\* NewArray: pageCount := (length*8 + PageSize - 1) / PageSize, on 64-bit ints
NumPagesW(length) ==
    DivPageSizeW(AddW(MulW(length, 8), WordOfNat(PageSize - 1)))

\* pageCount for a length small enough for the result to be a small number
NumPagesOf(length) == NatOfWord(NumPagesW(WordOfInt(length)))

\* NewArray(length).PageCount(): val is the page count of the new array
NewArrayPageCount(length) ==
    /\ ret' = [op |-> "NewArray", arg |-> [length |-> length], err |-> "ok",
               val |-> NumPagesW(length)]
    /\ UNCHANGED <<leaseVars, cacheVars, mmVars, glpVars, store, group, red, sched>>

NewArray(id, length) ==
    [ID |-> id, Length |-> length, NumPages |-> NumPagesOf(length),
     PageMapping |-> [p \in PageIDs |-> NoNode], Version |-> 1]

\* NewPage: a zeroed page
NewPage(id, version) ==
    [ID |-> id, Version |-> version, Data |-> [i \in 0 .. 1 |-> 0]]

pageKey(arrayID, pageID) == [arrayID |-> arrayID, pageID |-> pageID]

MMInit ==
    /\ arrays = [n \in Nodes |-> {}]
    /\ arrayObj = [a \in 1 .. MaxArrays |-> NoArray]
    /\ pages = [n \in Nodes |-> <<>>]
    /\ nextArrayID = 1
    /\ writes = <<>>

\* CreateArray that makes the creating node the owner of page 0
CreateArrayOwnsFirstPage(n, length) ==
    /\ nextArrayID <= MaxArrays
    /\ arrayObj' = [arrayObj EXCEPT ![nextArrayID] =
                       [NewArray(nextArrayID, length)
                           EXCEPT !.PageMapping[0] = n]]
    /\ arrays' = [arrays EXCEPT ![n] = @ \cup {nextArrayID}]
    /\ nextArrayID' = nextArrayID + 1
    /\ ret' = [op |-> "CreateArray", arg |-> [node |-> n, length |-> length],
               err |-> "ok", val |-> nextArrayID]
    /\ UNCHANGED <<pages, writes>>

\* MemoryManager.CreateArray on node n
CreateArray(n, length) ==
    /\ nextArrayID <= MaxArrays
    /\ arrayObj' = [arrayObj EXCEPT ![nextArrayID] = NewArray(nextArrayID, length)]
    /\ arrays' = [arrays EXCEPT ![n] = @ \cup {nextArrayID}]
    /\ nextArrayID' = nextArrayID + 1
    /\ ret' = [op |-> "CreateArray", arg |-> [node |-> n, length |-> length],
               err |-> "ok", val |-> nextArrayID]
    /\ UNCHANGED <<pages, writes>>

\* MemoryManager.GetArray on node n: val is the Array returned
GetArray(n, arrayID) ==
    /\ ret' = [op |-> "GetArray", arg |-> [node |-> n, array |-> arrayID],
               err |-> IF arrayID \in arrays[n] THEN "ok"
                       ELSE "array not found",
               val |-> IF arrayID \in arrays[n] THEN arrayObj[arrayID]
                       ELSE NoArray]
    /\ UNCHANGED mmVars

\* DeleteArray that reports success for an id that is not registered
DeleteArrayAlwaysNil(n, arrayID) ==
    /\ arrays' = [arrays EXCEPT ![n] = @ \ {arrayID}]
    /\ ret' = [op |-> "DeleteArray", arg |-> [node |-> n, array |-> arrayID],
               err |-> "ok", val |-> 0]
    /\ UNCHANGED <<arrayObj, pages, nextArrayID, writes>>

\* MemoryManager.DeleteArray on node n
DeleteArray(n, arrayID) ==
    /\ IF arrayID \notin arrays[n]
       THEN /\ ret' = [op |-> "DeleteArray",
                       arg |-> [node |-> n, array |-> arrayID],
                       err |-> "array not found", val |-> 0]
            /\ UNCHANGED arrays
       ELSE /\ arrays' = [arrays EXCEPT ![n] = @ \ {arrayID}]
            /\ ret' = [op |-> "DeleteArray",
                       arg |-> [node |-> n, array |-> arrayID],
                       err |-> "ok", val |-> 0]
    /\ UNCHANGED <<arrayObj, pages, nextArrayID, writes>>

\* Array.SetPageOwner on the Array object a
SetPageOwner(a, pageID, nodeID) ==
    /\ arrayObj[a] # NoArray
    /\ arrayObj' = [arrayObj EXCEPT ![a].PageMapping[pageID] = nodeID]
    /\ ret' = [op |-> "SetPageOwner",
               arg |-> [array |-> a, page |-> pageID, node |-> nodeID],
               err |-> "ok", val |-> 0]
    /\ UNCHANGED <<arrays, pages, nextArrayID, writes>>

----------------------------------------------------------------------------
(* RequestPage and getLocalPage, critical section by critical section.       *)
(* RequestPage holds mm.mu for the lookup of the array (GetArray), a.mu for  *)
(* the lookup of the owner (GetPageOwner), and getLocalPage holds mm.mu for   *)
(* the lookup of the page and, separately, for the store; the locks are       *)
(* released in between, so other goroutines run between the sections.  A      *)
(* *Page is an address together with the Page it points to; a goroutine that  *)
(* has returned is idle again.                                                *)

MaxPages   == 2
Goroutines == {"g1", "g2"}
LocalKeys  == {[arrayID |-> 1, pageID |-> 0]}

NoCall == [pc |-> "idle", op |-> "none", arg |-> <<>>, node |-> NoNode,
           key |-> <<>>, version |-> 0]

GLPInit ==
    /\ calls = [g \in Goroutines |-> NoCall]
    /\ nextPage = 1

\* what the call c returns to its caller
Return(c, err, val) == [op |-> c.op, arg |-> c.arg, err |-> err, val |-> val]

\* goroutine g enters mm.getLocalPage(ctx, arrayID, pageID, version) on node n
GLPCall(g, n, arrayID, pageID, version) ==
    /\ calls[g].pc = "idle"
    /\ calls' = [calls EXCEPT ![g] =
                    [pc |-> "check", op |-> "getLocalPage",
                     arg |-> [g |-> g, node |-> n,
                              key |-> pageKey(arrayID, pageID)],
                     node |-> n,
                     key |-> pageKey(arrayID, pageID), version |-> version]]
    /\ UNCHANGED <<pages, nextPage, ret>>

\* goroutine g enters mm.RequestPage(ctx, arrayID, pageID, version) on node n
RequestPageCall(g, n, arrayID, pageID, version) ==
    /\ calls[g].pc = "idle"
    /\ calls' = [calls EXCEPT ![g] =
                    [pc |-> "getarray", op |-> "RequestPage",
                     arg |-> [node |-> n, array |-> arrayID, page |-> pageID],
                     node |-> n,
                     key |-> pageKey(arrayID, pageID), version |-> version]]
    /\ UNCHANGED <<pages, nextPage, ret>>

\* array, err := mm.GetArray(ctx, arrayID), under mm.mu.RLock
RequestPageGetArray(g) ==
    LET c == calls[g]
    IN  /\ c.pc = "getarray"
        /\ IF c.key.arrayID \notin arrays[c.node]
           THEN /\ calls' = [calls EXCEPT ![g] = NoCall]
                /\ ret' = Return(c, "array not found", 0)
           ELSE /\ calls' = [calls EXCEPT ![g].pc = "owner"]
                /\ UNCHANGED ret
        /\ UNCHANGED <<pages, nextPage>>

\* requestRemotePage: a new page, no message is exchanged
requestRemotePage(addr, pageID, version) ==
    [addr |-> addr, page |-> NewPage(pageID, version)]

\* the owner test of RequestPage taking a page without owner for a local one
RequestPageOwnerless(g) ==
    LET c     == calls[g]
        owner == arrayObj[c.key.arrayID].PageMapping[c.key.pageID]
    IN  /\ c.pc = "owner"
        /\ IF owner \in {NoNode, c.node}
           THEN /\ calls' = [calls EXCEPT ![g].pc = "check"]
                /\ UNCHANGED <<nextPage, ret>>
           ELSE LET page == requestRemotePage(nextPage, c.key.pageID,
                                              c.version)
                IN  /\ nextPage <= MaxPages
                    /\ nextPage' = nextPage + 1
                    /\ calls' = [calls EXCEPT ![g] = NoCall]
                    /\ ret' = Return(c, "ok", page)
        /\ UNCHANGED pages

\* ownerID, exists := array.GetPageOwner(pageID), under a.mu.RLock, and the
\* branch on the owner: an error, the entry into getLocalPage, or
\* requestRemotePage, which takes no lock and returns a new page
RequestPageOwner(g) ==
    LET c     == calls[g]
        owner == arrayObj[c.key.arrayID].PageMapping[c.key.pageID]
    IN  /\ c.pc = "owner"
        /\ IF owner = NoNode
           THEN /\ calls' = [calls EXCEPT ![g] = NoCall]
                /\ ret' = Return(c, "page owner not found", 0)
                /\ UNCHANGED nextPage
           ELSE IF owner = c.node
           THEN /\ calls' = [calls EXCEPT ![g].pc = "check"]
                /\ UNCHANGED <<nextPage, ret>>
           ELSE LET page == requestRemotePage(nextPage, c.key.pageID,
                                              c.version)
                IN  /\ nextPage <= MaxPages
                    /\ nextPage' = nextPage + 1
                    /\ calls' = [calls EXCEPT ![g] = NoCall]
                    /\ ret' = Return(c, "ok", page)
        /\ UNCHANGED pages

\* getLocalPage: mm.mu.RLock(); page, exists := mm.pages[key];
\* mm.mu.RUnlock() and, when the page exists, return page, nil
GLPCheck(g) ==
    LET c == calls[g]
    IN  /\ c.pc = "check"
        /\ IF c.key \in DOMAIN pages[c.node]
           THEN /\ calls' = [calls EXCEPT ![g] = NoCall]
                /\ ret' = Return(c, "ok", pages[c.node][c.key])
           ELSE /\ calls' = [calls EXCEPT ![g].pc = "store"]
                /\ UNCHANGED ret
        /\ UNCHANGED <<pages, nextPage>>

\* getLocalPage: page = NewPage(pageID, version); mm.mu.Lock();
\* mm.pages[key] = page; mm.mu.Unlock(); return page, nil
GLPStore(g) ==
    LET c    == calls[g]
        page == [addr |-> nextPage, page |-> NewPage(c.key.pageID, c.version)]
    IN  /\ c.pc = "store"
        /\ nextPage <= MaxPages
        /\ pages' = [pages EXCEPT ![c.node] = (c.key :> page) @@ @]
        /\ nextPage' = nextPage + 1
        /\ calls' = [calls EXCEPT ![g] = NoCall]
        /\ ret' = Return(c, "ok", page)

----------------------------------------------------------------------------
(* Page storage.  pageStorage.data is PageSize bytes; the model keeps the   *)
(* non-zero ones.                                                          *)

\* ps.data[o]
ByteAt(data, o) == IF o \in DOMAIN data THEN data[o] ELSE 0

\* copy into ps.data[off : off+n] of the n bytes bs (indexed from 0)
WriteBytes(data, off, n, bs) ==
    LET rng     == off .. (off + n - 1)
        byte(o) == IF o \in rng THEN bs[o - off] ELSE ByteAt(data, o)
        dom     == {o \in DOMAIN data \cup rng : byte(o) # 0}
    IN  [o \in dom |-> byte(o)]

\* binary.LittleEndian.PutUint64: the 8 bytes of a 64-bit word
PutUint64(x) ==
    [i \in 0 .. 7 |->
        IF i % 2 = 0 THEN x[i \div 2 + 1] % 256 ELSE x[i \div 2 + 1] \div 256]

\* binary.LittleEndian.Uint64 of ps.data[off : off+8]
Uint64(data, off) ==
    [j \in 1 .. 4 |->
        ByteAt(data, off + 2 * (j - 1))
            + 256 * ByteAt(data, off + 2 * (j - 1) + 1)]

\* binary.LittleEndian.PutUint32: the 4 bytes of u
PutUint32(u) == [i \in 0 .. 3 |-> (u \div (256 ^ i)) % 256]

\* binary.LittleEndian.Uint32 of ps.data[off : off+4], as two 16-bit halves
Uint32(data, off) ==
    [lo |-> ByteAt(data, off) + 256 * ByteAt(data, off + 1),
     hi |-> ByteAt(data, off + 2) + 256 * ByteAt(data, off + 3)]


\* A float32 value m * 2^e, with m odd or the value zero
RECURSIVE FloatNorm(_, _)
FloatNorm(m, e) ==
    IF m = 0 THEN [m |-> 0, e |-> 0]
    ELSE IF m % 2 = 0 THEN FloatNorm(m \div 2, e + 1)
    ELSE [m |-> m, e |-> e]

\* uint32(value) for a float32 in the range of uint32: the fraction is dropped
Uint32OfFloat32(f) ==
    IF f.e >= 0 THEN f.m * (2 ^ f.e) ELSE GoDiv(f.m, 2 ^ (-f.e))

\* The number of significant bits of a byte d > 0
BitLen(d) == CHOOSE k \in 1 .. 8 : 2 ^ (k - 1) <= d /\ d < 2 ^ k

\* float32(u) for a uint32 u: exact below 2^24, otherwise rounded to 24
\* significant bits, ties to even
Float32OfUint32(u) ==
    IF u.hi < 256
    THEN FloatNorm(u.hi * LimbBase + u.lo, 0)
    ELSE LET k    == BitLen(u.hi \div 256)
             hi24 == u.hi * 256 + u.lo \div 256
             lo8  == u.lo % 256
             q    == hi24 * (2 ^ (8 - k)) + lo8 \div (2 ^ k)
             r    == lo8 % (2 ^ k)
             half == 2 ^ (k - 1)
             up   == r > half \/ (r = half /\ q % 2 = 1)
         IN  FloatNorm(IF up THEN q + 1 ELSE q, k)

\* offset < 0 || offset+size > len(ps.data)
OutOfBounds(offset, size) ==
    IsNegW(offset) \/ GtS(AddW(offset, WordOfNat(size)), WordOfNat(PageSize))

\* ps.data[offset : offset+size] is a valid slice expression: low <= high
SliceInRange(offset, size) == ~GtS(offset, AddW(offset, WordOfNat(size)))

\* The outcome of an accessor whose bounds test let the access through
Access(data, offset, size, val, after) ==
    IF ~SliceInRange(offset, size)
    THEN [err |-> "panic", val |-> 0, data |-> data]
    ELSE [err |-> "ok", val |-> val, data |-> after]

getInt64(data, offset) ==
    IF OutOfBounds(offset, 8)
    THEN [err |-> "out of bounds", val |-> 0, data |-> data]
    ELSE Access(data, offset, 8, Uint64(data, NatOfWord(offset)), data)

\* setInt64 that writes the low seven bytes of the value only
setInt64Short(data, offset, value) ==
    IF OutOfBounds(offset, 8)
    THEN [err |-> "out of bounds", val |-> 0, data |-> data]
    ELSE Access(data, offset, 8, 0,
                WriteBytes(data, NatOfWord(offset), 7, PutUint64(value)))

setInt64(data, offset, value) ==
    IF OutOfBounds(offset, 8)
    THEN [err |-> "out of bounds", val |-> 0, data |-> data]
    ELSE Access(data, offset, 8, 0,
                WriteBytes(data, NatOfWord(offset), 8, PutUint64(value)))

getFloat32(data, offset) ==
    IF OutOfBounds(offset, 4)
    THEN [err |-> "out of bounds", val |-> 0, data |-> data]
    ELSE Access(data, offset, 4,
                Float32OfUint32(Uint32(data, NatOfWord(offset))), data)

setFloat32(data, offset, value) ==
    IF OutOfBounds(offset, 4)
    THEN [err |-> "out of bounds", val |-> 0, data |-> data]
    ELSE Access(data, offset, 4, 0,
                WriteBytes(data, NatOfWord(offset), 4,
                           PutUint32(Uint32OfFloat32(value))))

\* Inputs of the accessors
Int64Values   == {WordOfInt(42), WordOfInt(-1), MinInt64, MaxInt64}
Float32Values == {[m |-> 3, e |-> 0], [m |-> 5, e |-> -1]}
\* Element indexes: 0, the last element of the page, the first one beyond it,
\* -1, 2^61, -2^61 and 2^60 - 1
ElementIndexes(size) ==
    {WordOfInt(0), WordOfInt(PageSize \div size - 1),
     WordOfInt(PageSize \div size), WordOfInt(-1),
     <<0, 0, 0, LimbBase \div 8>>, NegW(<<0, 0, 0, LimbBase \div 8>>),
     <<LimbBase - 1, LimbBase - 1, LimbBase - 1, LimbBase \div 16 - 1>>}
\* Byte offsets: the first one too close to the end of the page, and
\* MaxInt64 - 3
Offsets(size) ==
    {WordOfInt(PageSize - size + 1), AddW(MaxInt64, WordOfInt(-3))}
NoIndex == <<>>

\* The offsets the accessors are called with: those pageStorage is called
\* with directly, and elementIndex * size for the calls through Page.
Targets(size) ==
    {[via |-> "pageStorage", index |-> NoIndex, offset |-> o] :
        o \in Offsets(size)}
    \cup {[via |-> "Page", index |-> i, offset |-> MulW(i, size)] :
             i \in ElementIndexes(size)}

SetInt64(t, v) ==
    LET r == setInt64(store, t.offset, v)
    IN  /\ store' = r.data
        /\ ret' = [op |-> "SetInt64", arg |-> [at |-> t, v |-> v],
                   err |-> r.err, val |-> r.val]

GetInt64(t) ==
    LET r == getInt64(store, t.offset)
    IN  /\ store' = r.data
        /\ ret' = [op |-> "GetInt64", arg |-> [at |-> t],
                   err |-> r.err, val |-> r.val]

SetFloat32(t, v) ==
    LET r == setFloat32(store, t.offset, v)
    IN  /\ store' = r.data
        /\ ret' = [op |-> "SetFloat32", arg |-> [at |-> t, v |-> v],
                   err |-> r.err, val |-> r.val]

GetFloat32(t) ==
    LET r == getFloat32(store, t.offset)
    IN  /\ store' = r.data
        /\ ret' = [op |-> "GetFloat32", arg |-> [at |-> t],
                   err |-> r.err, val |-> r.val]

StorageStep(A) == A /\ UNCHANGED <<leaseVars, cacheVars, mmVars, glpVars, group, red,
                                 sched>>

----------------------------------------------------------------------------
(* Shared array API: a sharedArray of node n wraps the Array object a *)

\* the Set of element i of array a that a node other than n has synced, if any
SyncedFor(n, a, i) ==
    LET w == [array |-> a, i |-> i]
    IN  IF w \in DOMAIN writes /\ writes[w].state = "synced"
                                /\ writes[w].node # n
        THEN writes[w]
        ELSE NoWrite

\* sharedArray.Get(i), run by goroutine g of node n: the index test and the
\* entry into RequestPage for page 0; the page RequestPage returns is what Get
\* returns.  The call is labelled with the write another node had synced when
\* it was issued.
Get(g, n, a, i) ==
    /\ arrayObj[a] # NoArray
    /\ calls[g].pc = "idle"
    /\ LET arg == [node |-> n, array |-> a, i |-> i, after |-> SyncedFor(n, a, i)]
       IN  IF i < 0 \/ i >= arrayObj[a].Length
           THEN /\ ret' = [op |-> "Get", arg |-> arg,
                           err |-> "index out of bounds", val |-> 0]
                /\ UNCHANGED calls
           ELSE /\ calls' = [calls EXCEPT ![g] =
                                [pc |-> "getarray", op |-> "Get", arg |-> arg,
                                 node |-> n, key |-> pageKey(a, 0),
                                 version |-> arrayObj[a].Version]]
                /\ UNCHANGED ret
    /\ UNCHANGED <<pages, nextPage>>

\* Set that stamps the array with a new version on every accepted write
SetBumpsVersion(n, a, i, v) ==
    /\ arrayObj[a] # NoArray
    /\ LET arg == [node |-> n, array |-> a, i |-> i, v |-> v]
       IN  IF i < 0 \/ i >= arrayObj[a].Length
           THEN /\ ret' = [op |-> "Set", arg |-> arg,
                           err |-> "index out of bounds", val |-> 0]
                /\ UNCHANGED <<writes, arrayObj>>
           ELSE /\ ret' = [op |-> "Set", arg |-> arg, err |-> "ok", val |-> 0]
                /\ arrayObj' = [arrayObj EXCEPT ![a].Version = @ + 1]
                /\ arrayObj[a].Version < MaxVersion
                /\ writes' = ([array |-> a, i |-> i] :>
                                 [state |-> "set", node |-> n, v |-> v])
                             @@ writes
    /\ UNCHANGED <<arrays, pages, nextArrayID>>

\* sharedArray.Set(i, v): checks the index and returns nil
Set(n, a, i, v) ==
    /\ arrayObj[a] # NoArray
    /\ LET arg == [node |-> n, array |-> a, i |-> i, v |-> v]
       IN  IF i < 0 \/ i >= arrayObj[a].Length
           THEN /\ ret' = [op |-> "Set", arg |-> arg,
                           err |-> "index out of bounds", val |-> 0]
                /\ UNCHANGED writes
           ELSE /\ ret' = [op |-> "Set", arg |-> arg, err |-> "ok", val |-> 0]
                /\ writes' = ([array |-> a, i |-> i] :>
                                 [state |-> "set", node |-> n, v |-> v])
                             @@ writes
    /\ UNCHANGED <<arrays, arrayObj, pages, nextArrayID>>

\* sharedArray.Close(): returns nil
Close(n, a) ==
    /\ arrayObj[a] # NoArray
    /\ ret' = [op |-> "Close", arg |-> [node |-> n, array |-> a],
               err |-> "ok", val |-> 0]
    /\ UNCHANGED mmVars

\* sharedArray.Sync(): returns nil
Sync(n, a) ==
    /\ arrayObj[a] # NoArray
    /\ ret' = [op |-> "Sync", arg |-> [node |-> n, array |-> a],
               err |-> "ok", val |-> 0]
    /\ writes' = [w \in DOMAIN writes |->
                     IF w.array = a /\ writes[w].node = n
                     THEN [writes[w] EXCEPT !.state = "synced"]
                     ELSE writes[w]]
    /\ UNCHANGED <<arrays, arrayObj, pages, nextArrayID>>

----------------------------------------------------------------------------
(* Scheduler: ParallelFor.  The caller's loop submits one task per index to  *)
(* an errgroup; a task is a goroutine of its own.  group.active is the       *)
(* number of tasks submitted and not yet returned: the errgroup's wait       *)
(* counter and, under SetLimit, the occupancy of its semaphore.             *)

MaxN     == 3
MaxLimit == 2

TaskIndexes == 0 .. MaxN - 1

\* no call yet
GroupInit ==
    group = [pc |-> "idle", n |-> 0, limit |-> 0, fails |-> {}, i |-> 0,
             task |-> [j \in TaskIndexes |-> "none"],
             count |-> [j \in TaskIndexes |-> 0],
             active |-> 0, err |-> "nil", done |-> FALSE, parent |-> FALSE]

\* ParallelFor(ctx, logger, n, fn, maxConcurrency), where fn(j) returns an error
\* exactly for the indexes j in fails: errgroup.WithContext, SetLimit when
\* maxConcurrency > 0, i := 0
ParallelFor(n, fails, maxConcurrency) ==
    /\ group.pc = "idle"
    /\ group' = [group EXCEPT !.pc = "loop", !.n = n, !.fails = fails,
                              !.limit = IF maxConcurrency > 0
                                        THEN maxConcurrency ELSE 0]
    /\ UNCHANGED ret

\* the caller's context is cancelled while the call is in progress; the
\* group's context is derived from it
CancelContext ==
    /\ group.pc \in {"loop", "wait"}
    /\ ~group.parent
    /\ group' = [group EXCEPT !.parent = TRUE, !.done = TRUE]
    /\ UNCHANGED ret

\* one iteration of the loop: g.Go blocks while the limit is reached, then
\* starts the goroutine of index i
GroupGo ==
    /\ group.pc = "loop"
    /\ group.i < group.n
    /\ group.limit = 0 \/ group.active < group.limit
    /\ group' = [group EXCEPT !.task[group.i] = "spawned",
                              !.active = @ + 1, !.i = @ + 1]
    /\ UNCHANGED ret

\* i < n is false: the loop ends and the caller enters g.Wait()
GroupLoopEnd ==
    /\ group.pc = "loop"
    /\ group.i >= group.n
    /\ group' = [group EXCEPT !.pc = "wait"]
    /\ UNCHANGED ret

\* the goroutine's return: the first non-nil error is kept and cancels the
\* group's context; the semaphore slot and the wait counter are released
TaskDone(j, err) ==
    [group EXCEPT !.task[j] = "done",
                  !.active = @ - 1,
                  !.err = IF err # "nil" /\ @ = "nil" THEN err ELSE @,
                  !.done = @ \/ err # "nil"]

\* the goroutine of index j runs its select: return ctx.Err() when the
\* group's context is done, otherwise call fn(j)
TaskSelect(j) ==
    /\ group.task[j] = "spawned"
    /\ group' = IF group.done
                THEN TaskDone(j, "context canceled")
                ELSE [group EXCEPT !.task[j] = "running", !.count[j] = @ + 1]
    /\ UNCHANGED ret

\* fn(j) returns, and the goroutine returns its result
TaskReturn(j) ==
    /\ group.task[j] = "running"
    /\ group' = TaskDone(j, IF j \in group.fails THEN "fn error" ELSE "nil")
    /\ UNCHANGED ret

\* g.Wait() returning at once, without waiting for the goroutines
GroupWaitNoBarrier ==
    /\ group.pc = "wait"
    /\ group' = [group EXCEPT !.pc = "returned", !.done = TRUE]
    /\ ret' = [op |-> "ParallelFor",
               arg |-> [n |-> group.n, fails |-> group.fails,
                        cancelled |-> group.parent],
               err |-> group.err, val |-> group.count]

\* g.Wait(): once every goroutine has returned, cancel the group's context
\* and return the first error; ParallelFor returns it
GroupWait ==
    /\ group.pc = "wait"
    /\ group.active = 0
    /\ group' = [group EXCEPT !.pc = "returned", !.done = TRUE]
    /\ ret' = [op |-> "ParallelFor",
               arg |-> [n |-> group.n, fails |-> group.fails,
                        cancelled |-> group.parent],
               err |-> group.err, val |-> group.count]

GroupStep(A) ==
    A /\ UNCHANGED <<leaseVars, cacheVars, mmVars, glpVars, store, red, sched>>

----------------------------------------------------------------------------
(* Scheduler: Reduce.  Map fills mapped through one errgroup; a second        *)
(* errgroup then folds mapped[1..] into *result, one goroutine per element,   *)
(* each under the mutex mu.  red.active is the wait counter of the errgroup   *)
(* in use.                                                                    *)

MaxLen == 3

ReduceIndexes == 0 .. MaxLen - 1

\* the caller's inputs: in[j] = j + 1, as in the tests
InputOf(len) == [j \in 0 .. len - 1 |-> j + 1]

\* the test's functions: mapFn squares, reduceFn adds
mapFn(x) == x * x
reduceFn(a, b) == a + b

\* what *result holds before the call
StaleResult == 99

ReduceInit ==
    red = [pc |-> "idle", n |-> 0, limit |-> 0, fails |-> {}, i |-> 0,
           task |-> [j \in ReduceIndexes |-> "none"],
           mapped |-> [j \in ReduceIndexes |-> 0],
           tmp |-> [j \in ReduceIndexes |-> 0],
           combined |-> [j \in ReduceIndexes |-> 0],
           result |-> StaleResult, mu |-> FALSE,
           active |-> 0, err |-> "nil", done |-> FALSE, parent |-> FALSE]

\* Reduce(ctx, logger, in, mapFn, reduceFn, result, maxConcurrency) with
\* len(in) = n and a mapFn failing exactly on the indexes in fails:
\* mapped := make([]U, len(in)) and the entry into Map (WithContext, SetLimit)
Reduce(n, fails, maxConcurrency) ==
    /\ red.pc = "idle"
    /\ red' = [red EXCEPT !.pc = "map", !.n = n, !.fails = fails,
                          !.limit = IF maxConcurrency > 0
                                    THEN maxConcurrency ELSE 0]
    /\ UNCHANGED ret

\* the caller's context is cancelled while the call is in progress; both
\* groups' contexts are derived from it
ReduceCancel ==
    /\ red.pc \in {"map", "mapwait", "reduce", "redwait"}
    /\ ~red.parent
    /\ red' = [red EXCEPT !.parent = TRUE, !.done = TRUE]
    /\ UNCHANGED ret

\* one iteration of a submit loop (Map's or the reduction's): g.Go blocks
\* while the limit is reached, then starts the goroutine of index i
ReduceGo ==
    /\ red.pc \in {"map", "reduce"}
    /\ red.i < red.n
    /\ red.limit = 0 \/ red.active < red.limit
    /\ red' = [red EXCEPT !.task[red.i] = "spawned",
                          !.active = @ + 1, !.i = @ + 1]
    /\ UNCHANGED ret

\* the submit loop ends and the caller enters g.Wait()
ReduceLoopEnd ==
    /\ red.pc \in {"map", "reduce"}
    /\ red.i >= red.n
    /\ red' = [red EXCEPT !.pc = IF red.pc = "map" THEN "mapwait"
                                 ELSE "redwait"]
    /\ UNCHANGED ret

\* a goroutine of the group in use returns err
ReduceTaskDone(r, j, err) ==
    [r EXCEPT !.task[j] = "done",
              !.active = @ - 1,
              !.err = IF err # "nil" /\ @ = "nil" THEN err ELSE @,
              !.done = @ \/ err # "nil"]

\* a goroutine's select: return ctx.Err() when the group's context is done,
\* otherwise go on to the default branch
ReduceTaskSelect(j) ==
    /\ red.task[j] = "spawned"
    /\ red' = IF red.done
              THEN ReduceTaskDone(red, j, "context canceled")
              ELSE [red EXCEPT !.task[j] = "running"]
    /\ UNCHANGED ret

\* Map's default branch: result, err := fn(in[i]); out[i] = result
MapTaskReturn(j) ==
    /\ red.pc \in {"map", "mapwait"}
    /\ red.task[j] = "running"
    /\ red' = IF j \in red.fails
              THEN ReduceTaskDone(red, j, "fn error")
              ELSE ReduceTaskDone([red EXCEPT !.mapped[j] =
                                                 mapFn(InputOf(red.n)[j])],
                                  j, "nil")
    /\ UNCHANGED ret

\* Reduce from the return of Map's g.Wait() up to the second submit loop:
\* return mapErr; or, for no element, *result = zero and return nil; or
\* *result = mapped[0], a new errgroup on the caller's context, i := 1
\* (parameter first: the index the submit loop starts from)
ReduceAfterMapFrom(first) ==
    /\ red.pc = "mapwait"
    /\ red.active = 0
    /\ IF red.err # "nil"
       THEN /\ red' = [red EXCEPT !.pc = "returned", !.done = TRUE]
            /\ ret' = [op |-> "Reduce",
                       arg |-> [n |-> red.n, fails |-> red.fails,
                                cancelled |-> red.parent],
                       err |-> red.err, val |-> red.result]
       ELSE IF red.n = 0
       THEN /\ red' = [red EXCEPT !.pc = "returned", !.done = TRUE,
                                  !.result = 0]
            /\ ret' = [op |-> "Reduce",
                       arg |-> [n |-> red.n, fails |-> red.fails,
                                cancelled |-> red.parent],
                       err |-> "nil", val |-> 0]
       ELSE /\ red' = [red EXCEPT !.pc = "reduce", !.i = first,
                                  !.result = red.mapped[0],
                                  !.combined[0] = 1,
                                  !.done = red.parent,
                                  !.task = [j \in ReduceIndexes |-> "none"]]
            /\ UNCHANGED ret

ReduceAfterMapAgain == ReduceAfterMapFrom(0)

ReduceAfterMap == ReduceAfterMapFrom(1)

\* the reduction's default branch: mu.Lock()
ReduceTaskLock(j) ==
    /\ red.pc \in {"reduce", "redwait"}
    /\ red.task[j] = "running"
    /\ ~red.mu
    /\ red' = [red EXCEPT !.mu = TRUE, !.task[j] = "locked"]
    /\ UNCHANGED ret

\* the read of *result in reduceFn(*result, mapped[i])
ReduceTaskRead(j) ==
    /\ red.task[j] = "locked"
    /\ red' = [red EXCEPT !.tmp[j] = red.result, !.task[j] = "read"]
    /\ UNCHANGED ret

\* *result = reduceFn(..., mapped[i]); mu.Unlock(); return nil
ReduceTaskWrite(j) ==
    /\ red.task[j] = "read"
    /\ red' = ReduceTaskDone(
                 [red EXCEPT !.result = reduceFn(red.tmp[j], red.mapped[j]),
                             !.combined[j] = @ + 1,
                             !.mu = FALSE],
                 j, "nil")
    /\ UNCHANGED ret

\* the reduction's g.Wait() and the return of Reduce
ReduceWait ==
    /\ red.pc = "redwait"
    /\ red.active = 0
    /\ red' = [red EXCEPT !.pc = "returned", !.done = TRUE]
    /\ ret' = [op |-> "Reduce",
               arg |-> [n |-> red.n, fails |-> red.fails,
                        cancelled |-> red.parent],
               err |-> red.err, val |-> red.result]

ReduceStep(A) ==
    A /\ UNCHANGED <<leaseVars, cacheVars, mmVars, glpVars, store, group,
                     sched>>

----------------------------------------------------------------------------
(* Scheduler: task execution.  SubmitTask registers a task and sends it on    *)
(* taskChan; run receives tasks and starts one executeTask goroutine each.    *)
(* Callers pass SubmitTask the context the scheduler was started with, as     *)
(* the tests do.                                                              *)

\* capacity of taskChan (100 in NewScheduler)
QueueCap == 1

\* the Task objects of the callers, and their IDs: t1 and t3 share one
SchedTasks == {"t1", "t2", "t3"}
TaskIDs    == {"a", "b"}
TaskID(t)  == IF t = "t2" THEN "b" ELSE "a"

\* cap(task.Result): t2's channel is unbuffered and nobody receives from it
ResultCap(t) == IF t = "t2" THEN 0 ELSE 1

\* what task.Function returns
FunctionResult(t) == IF t = "t3" THEN "task error" ELSE "nil"

NoTask == "none"

\* NewScheduler
SchedulerInit ==
    sched = [run |-> "none", closed |-> FALSE, ctxDone |-> FALSE,
             tasks |-> [id \in TaskIDs |-> NoTask],
             taskChan |-> <<>>,
             st |-> [t \in SchedTasks |-> "new"],
             result |-> [t \in SchedTasks |-> <<>>],
             runs |-> [t \in SchedTasks |-> 0]]

\* Start(ctx): s.wg.Add(1); go s.run(ctx)
Start ==
    /\ sched.run = "none"
    /\ sched' = [sched EXCEPT !.run = "running"]
    /\ UNCHANGED ret

\* Stop(): close(s.taskChan), then s.wg.Wait()
Stop ==
    /\ ~sched.closed
    /\ sched' = [sched EXCEPT !.closed = TRUE]
    /\ UNCHANGED ret

\* the context is cancelled
CancelScheduler ==
    /\ ~sched.ctxDone
    /\ sched' = [sched EXCEPT !.ctxDone = TRUE]
    /\ UNCHANGED ret

\* SubmitTask: s.mu.Lock(); s.tasks[task.ID] = task; s.mu.Unlock()
SubmitRegister(t) ==
    /\ sched.st[t] = "new"
    /\ sched' = [sched EXCEPT !.st[t] = "registered",
                              !.tasks[TaskID(t)] = t]
    /\ UNCHANGED ret

\* SubmitTask's select, case s.taskChan <- task: return nil
SubmitSend(t) ==
    /\ sched.st[t] = "registered"
    /\ ~sched.closed
    /\ Len(sched.taskChan) < QueueCap
    /\ sched' = [sched EXCEPT !.st[t] = "queued",
                              !.taskChan = Append(@, t)]
    /\ ret' = [op |-> "SubmitTask", arg |-> [task |-> t],
               err |-> "nil", val |-> 0]

\* SubmitTask's select, the send case on the channel Stop has closed: panic
SubmitPanic(t) ==
    /\ sched.st[t] = "registered"
    /\ sched.closed
    /\ sched' = [sched EXCEPT !.st[t] = "panicked"]
    /\ ret' = [op |-> "SubmitTask", arg |-> [task |-> t],
               err |-> "panic", val |-> 0]

\* SubmitTask's select, case <-ctx.Done(): return ctx.Err()
SubmitCancelled(t) ==
    /\ sched.st[t] = "registered"
    /\ sched.ctxDone
    /\ sched' = [sched EXCEPT !.st[t] = "rejected"]
    /\ ret' = [op |-> "SubmitTask", arg |-> [task |-> t],
               err |-> "context canceled", val |-> 0]

\* run's select, case task := <-s.taskChan with a task: go s.executeTask(task)
RunReceive ==
    /\ sched.run = "running"
    /\ sched.taskChan # <<>>
    /\ sched' = [sched EXCEPT !.taskChan = Tail(@),
                              !.st[Head(sched.taskChan)] = "spawned"]
    /\ UNCHANGED ret

\* run's select, the receive from the closed and drained channel: task == nil
RunClosed ==
    /\ sched.run = "running"
    /\ sched.taskChan = <<>>
    /\ sched.closed
    /\ sched' = [sched EXCEPT !.run = "returned"]
    /\ UNCHANGED ret

\* run's select, case <-ctx.Done(): return
RunCancelled ==
    /\ sched.run = "running"
    /\ sched.ctxDone
    /\ sched' = [sched EXCEPT !.run = "returned"]
    /\ UNCHANGED ret

\* executeTask calling task.Function() and dropping what it returned
executeTaskDropsResult(t) ==
    /\ sched.st[t] = "spawned"
    /\ sched' = [sched EXCEPT !.st[t] = "executed", !.runs[t] = @ + 1]
    /\ UNCHANGED ret

\* executeTask: err := task.Function(), then the non-blocking send of err on
\* task.Result (the default branch when the channel has no room)
executeTask(t) ==
    /\ sched.st[t] = "spawned"
    /\ sched' = [sched EXCEPT
                    !.st[t] = "executed",
                    !.runs[t] = @ + 1,
                    !.result[t] = IF Len(@) < ResultCap(t)
                                  THEN Append(@, FunctionResult(t)) ELSE @]
    /\ UNCHANGED ret

\* executeTask: s.mu.Lock(); delete(s.tasks, task.ID); s.mu.Unlock()
RemoveTask(t) ==
    /\ sched.st[t] = "executed"
    /\ sched' = [sched EXCEPT !.st[t] = "done",
                              !.tasks[TaskID(t)] = NoTask]
    /\ UNCHANGED ret

SchedulerStep(A) ==
    A /\ UNCHANGED <<leaseVars, cacheVars, mmVars, glpVars, store, group, red>>

----------------------------------------------------------------------------
(* Lease manager: specifications *)

StoreInit == store = <<>>

Init ==
    /\ LeaseInit /\ CacheIdle /\ MMInit /\ GLPInit /\ StoreInit /\ GroupInit
    /\ ReduceInit /\ SchedulerInit
    /\ ret = NoRet

Next ==
    \/ \E k \in HotKeys, t \in LeaseTypes, c \in Clients, v \in Versions :
          LeaseStep(AcquireLease(k.arrayID, k.pageID, t, c, v))
    \/ \E c \in Clients, id \in LeaseIDs :
          KnowsID(c, id) /\ LeaseStep(ReleaseLease(c, id))
    \/ \E k \in HotKeys : LeaseStep(RevokeLease(k.arrayID, k.pageID))
    \/ LeaseStep(CleanupExpiredLeases)
    \/ \E id \in LeaseIDs : LeaseStep(ValidateLease(id))
    \/ \E k \in HotKeys : LeaseStep(HasWriteLease(k.arrayID, k.pageID))
    \/ LeaseStep(Tick)

Spec == Init /\ [][Next]_vars

\* A writer took its lease and stopped: it makes no further call.  The other
\* requesters keep retrying and time passes.  Nobody calls ReleaseLease or
\* RevokeLease.  The repository starts no goroutine that calls
\* CleanupExpiredLeases, so the sweep may run but is under no obligation to.
RetryAcquire ==
    \E k \in HotKeys, t \in LeaseTypes, c \in Clients, v \in Versions :
        /\ ~(LeaseAt(k) # NoLease /\ LeaseAt(k).Type = WriteLease
                /\ LeaseAt(k).Owner = c)
        /\ LeaseStep(AcquireLease(k.arrayID, k.pageID, t, c, v))

DeadWriterNext ==
    \/ RetryAcquire
    \/ LeaseStep(CleanupExpiredLeases)
    \/ LeaseStep(Tick)

DeadWriterSpec ==
    /\ Init
    /\ [][DeadWriterNext]_vars
    /\ WF_vars(LeaseStep(Tick))
    /\ WF_vars(RetryAcquire)

----------------------------------------------------------------------------
(* Lease manager: properties *)

\* Requester c was granted a lease of type t on key k that it has not released
\* itself, that was not revoked or swept, and that is not past its expiry.
Outstanding(c, k, t) ==
    \E g \in held[c] :
        /\ g.type = t
        /\ heap[g.id].ArrayID = k.arrayID
        /\ heap[g.id].PageID = k.pageID
        /\ ~Expired(heap[g.id], now)

\* C1: lease exclusivity.  In every reachable state, on every page at most one
\* requester has an unexpired Write lease that was granted to it and that it
\* has not released (and that was not revoked or swept), and no requester has
\* such a Read lease while a requester has such a Write lease.
LeaseExclusivity ==
    \A k \in LeaseKeys : \A c1, c2 \in Clients :
        /\ (Outstanding(c1, k, WriteLease) /\ Outstanding(c2, k, WriteLease))
              => c1 = c2
        /\ ~(Outstanding(c1, k, ReadLease) /\ Outstanding(c2, k, WriteLease))

\* C2: conflict matrix.  An AcquireLease on a page covered by an unexpired
\* Write lease fails with a conflict whatever its type and owner; a Write
\* AcquireLease on a page covered by an unexpired Read lease fails with a
\* conflict; and every failed acquisition leaves the lease table, the leases
\* and the grants as they were.
ConflictMatrix ==
    [][ret'.op = "AcquireLease" =>
          LET cur == LeaseAt(ret'.arg.key)
          IN  /\ (/\ cur # NoLease
                  /\ ~Expired(cur, now)
                  /\ (cur.Type = WriteLease \/ ret'.arg.type = WriteLease))
                     => ret'.err = "conflict"
              /\ ret'.err = "conflict" => UNCHANGED leaseVars]_vars

\* A Read request has just been refused on a page whose Write lease is
\* unexpired and still in the table.
ConflictMatrixWitness ==
    \E k \in HotKeys :
        /\ ret.op = "AcquireLease"
        /\ ret.arg.key = k
        /\ ret.arg.type = ReadLease
        /\ ret.err = "conflict"
        /\ LeaseAt(k) # NoLease
        /\ LeaseAt(k).Type = WriteLease
        /\ ~Expired(LeaseAt(k), now)

\* C3: read sharing.  A Read AcquireLease on a page without a Write lease
\* succeeds, and a Write AcquireLease fails with a conflict as long as some
\* requester has a Read lease on the page that it has not released and that
\* has not expired.
ReadSharing ==
    [][ret'.op = "AcquireLease" =>
          LET k == ret'.arg.key
          IN  /\ (ret'.arg.type = ReadLease
                     /\ (LeaseAt(k) = NoLease \/ LeaseAt(k).Type = ReadLease))
                     => ret'.err = "ok"
              /\ (ret'.arg.type = WriteLease
                     /\ \E c \in Clients : Outstanding(c, k, ReadLease))
                     => ret'.err = "conflict"]_vars

\* C4: an expired lease is void.  An AcquireLease on a page whose table entry
\* is past its ExpiresAt succeeds, whatever the types involved.
ExpiredLeaseIsVoid ==
    [][ret'.op = "AcquireLease" =>
          LET cur == LeaseAt(ret'.arg.key)
          IN  (cur # NoLease /\ Expired(cur, now)) => ret'.err = "ok"]_vars

\* A page is blocked when its table entry is a Write lease past its expiry.
Blocked(k) ==
    /\ LeaseAt(k) # NoLease
    /\ LeaseAt(k).Type = WriteLease
    /\ Expired(LeaseAt(k), now)

\* C5: recovery from a dead writer.  Once the Write lease of a stopped holder
\* has expired, the page does not stay blocked: with requesters retrying and
\* no ReleaseLease or RevokeLease, the expired lease eventually gives way.
DeadWriterRecovery ==
    \A k \in HotKeys : Blocked(k) ~> ~Blocked(k)

\* Some table entry holds the lease with this id
InTable(id) == \E k \in LeaseKeys : leases[k] = id

\* C16: ValidateLease.  ValidateLease(id) returns the lease when a lease with
\* that id is in the table and now <= ExpiresAt, fails with the expired error
\* when it is in the table and now > ExpiresAt, fails with not-found when no
\* lease of the table has that id, and never changes the lease table.
ValidateLeaseContract ==
    [][ret'.op = "ValidateLease" =>
          LET id == ret'.arg.id
          IN  /\ (InTable(id) /\ now <= heap[id].ExpiresAt)
                    => (ret'.err = "ok" /\ ret'.val = id)
              /\ (InTable(id) /\ now > heap[id].ExpiresAt)
                    => ret'.err = "expired"
              /\ ~InTable(id) => ret'.err = "notfound"
              /\ UNCHANGED leaseVars]_vars

\* ValidateLease has just failed with the expired error on a lease that is
\* still in the table.
ValidateLeaseWitness ==
    /\ ret.op = "ValidateLease"
    /\ ret.err = "expired"
    /\ InTable(ret.arg.id)

\* C18: HasWriteLease.  HasWriteLease(array, page) returns true exactly when
\* the table holds a Write lease for the page with now <= ExpiresAt (false for
\* no lease, a Read lease or an expired Write lease), and never changes the
\* table.
HasWriteLeaseContract ==
    [][ret'.op = "HasWriteLease" =>
          LET k == ret'.arg.key
          IN  /\ ret'.val = (/\ leases[k] # 0
                             /\ heap[leases[k]].Type = WriteLease
                             /\ now <= heap[leases[k]].ExpiresAt)
              /\ UNCHANGED leaseVars]_vars

\* HasWriteLease has just answered false for a page whose table entry is a
\* Write lease past its expiry.
HasWriteLeaseWitness ==
    /\ ret.op = "HasWriteLease"
    /\ ret.val = FALSE
    /\ Blocked(ret.arg.key)

\* C19: RevokeLease.  RevokeLease(array, page) returns no error whether or not
\* a lease exists; afterwards the page has no lease, whatever its type, owner
\* and expiry were, and the other pages' entries are untouched; a second
\* RevokeLease right after it changes nothing; an AcquireLease of either type
\* on the page right after it succeeds.
RevokeLeaseContract ==
    [][/\ ret'.op = "RevokeLease" =>
             /\ ret'.err = "ok"
             /\ leases'[ret'.arg.key] = 0
             /\ \A k \in LeaseKeys : k # ret'.arg.key => leases'[k] = leases[k]
             /\ (ret.op = "RevokeLease" /\ ret.arg.key = ret'.arg.key)
                   => UNCHANGED leaseVars
       /\ (/\ ret.op = "RevokeLease"
           /\ ret'.op = "AcquireLease"
           /\ ret'.arg.key = ret.arg.key)
             => ret'.err = "ok"]_vars

\* RevokeLease has just removed the lease the page had.
RevokeLeaseWitness ==
    /\ ret.op = "RevokeLease"
    /\ ret.val # 0
    /\ leases[ret.arg.key] = 0

\* C20: ReleaseLease.  ReleaseLease(id) removes the lease with that id and
\* returns no error when it is in the table, after which ValidateLease(id)
\* fails with not-found; when no lease of the table has that id, a second
\* release of the same id included, it fails with not-found and leaves the
\* lease table unchanged.
ReleaseLeaseContract ==
    [][/\ ret'.op = "ReleaseLease" =>
             LET id == ret'.arg.id
             IN  IF InTable(id)
                 THEN /\ ret'.err = "ok"
                      /\ ~(\E k \in LeaseKeys : leases'[k] = id)
                      /\ \A k \in LeaseKeys :
                            leases[k] # id => leases'[k] = leases[k]
                 ELSE /\ ret'.err = "notfound"
                      /\ leases' = leases
       /\ (/\ ret.op = "ReleaseLease"
           /\ ret.err = "ok"
           /\ ret'.op \in {"ValidateLease", "ReleaseLease"}
           /\ ret'.arg.id = ret.arg.id)
             => ret'.err = "notfound"]_vars

\* A second ReleaseLease of an id that was issued and released has just failed
\* with not-found.
ReleaseLeaseWitness ==
    /\ ret.op = "ReleaseLease"
    /\ ret.err = "notfound"
    /\ ret.arg.id < nextID
    /\ ~InTable(ret.arg.id)

\* C21: the lease a successful AcquireLease(array, page, type, owner, version)
\* returns is scoped to (array, page), has Type = type, Owner = owner and
\* ExpiresAt = now + ttl, also when it is a Read acquired while another
\* requester holds a Read lease on the page.
AcquiredLeaseFields ==
    [][(ret'.op = "AcquireLease" /\ ret'.err = "ok") =>
          LET lease == heap'[ret'.val]
          IN  /\ lease.ArrayID = ret'.arg.key.arrayID
              /\ lease.PageID = ret'.arg.key.pageID
              /\ lease.Type = ret'.arg.type
              /\ lease.Owner = ret'.arg.owner
              /\ lease.ExpiresAt = now + TTL]_vars

\* C22: Read re-acquisition by the same requester.  A Read AcquireLease by the
\* owner of the Read lease the page has returns the lease with the same
\* LeaseID, sets its ExpiresAt to now + ttl and adds no lease record: the
\* table and the requester's set of leases keep the records they had.
ReadReacquisition ==
    [][ret'.op = "AcquireLease" =>
          LET cur == LeaseAt(ret'.arg.key)
          IN  (/\ ret'.arg.type = ReadLease
               /\ cur # NoLease
               /\ cur.Type = ReadLease
               /\ cur.Owner = ret'.arg.owner)
                 => /\ ret'.err = "ok"
                    /\ ret'.val = cur.ID
                    /\ heap' = [heap EXCEPT ![cur.ID].ExpiresAt = now + TTL]
                    /\ leases' = leases
                    /\ nextID' = nextID
                    /\ {g.id : g \in held'[cur.Owner]}
                          = {g.id : g \in held[cur.Owner]} \cup {cur.ID}]_vars

\* The owner of a Read lease taken earlier has just re-acquired it: the call
\* returned the existing lease, whose expiry now lies a full ttl ahead.
ReadReacquisitionWitness ==
    /\ ret.op = "AcquireLease"
    /\ ret.err = "ok"
    /\ ~ret.created
    /\ heap[ret.val].Owner = ret.arg.owner
    /\ heap[ret.val].ExpiresAt = now + TTL
    /\ now > 0

----------------------------------------------------------------------------
(* The sweep: one requester takes leases on two pages at different times *)

SweepKeys == {[arrayID |-> 1, pageID |-> 0], [arrayID |-> 1, pageID |-> 1]}
Sweeper   == "n1"

SweepNext ==
    \/ \E k \in SweepKeys, t \in LeaseTypes, v \in Versions :
          LeaseStep(AcquireLease(k.arrayID, k.pageID, t, Sweeper, v))
    \/ \E id \in LeaseIDs : LeaseStep(ValidateLease(id))
    \/ LeaseStep(CleanupExpiredLeases)
    \/ LeaseStep(Tick)

SweepSpec == Init /\ [][SweepNext]_vars

\* C17: CleanupExpiredLeases removes from the table every lease with
\* now > ExpiresAt, validated or not, removes no lease with now <= ExpiresAt,
\* and leaves the leases it keeps unchanged.
CleanupContract ==
    [][ret'.op = "CleanupExpiredLeases" =>
          \A k \in LeaseKeys :
              IF leases[k] # 0 /\ now > heap[leases[k]].ExpiresAt
              THEN leases'[k] = 0
              ELSE /\ leases'[k] = leases[k]
                   /\ leases[k] # 0 => heap'[leases[k]] = heap[leases[k]]]_vars

\* The sweep has just removed one lease and kept another, which is still
\* within its lifetime.
CleanupWitness ==
    /\ ret.op = "CleanupExpiredLeases"
    /\ ret.val = 1
    /\ \E k \in SweepKeys : leases[k] # 0 /\ now <= heap[leases[k]].ExpiresAt
----------------------------------------------------------------------------
(* Leases of two pages: both requesters acquire, release and revoke leases   *)
(* on two pages of one array, within the lifetime of the first lease (none   *)
(* of the three operations looks at the expiry of a lease)                   *)

TwoPageNext ==
    \/ \E k \in SweepKeys, t \in LeaseTypes, c \in Clients, v \in Versions :
          LeaseStep(AcquireLease(k.arrayID, k.pageID, t, c, v))
    \/ \E c \in Clients, id \in LeaseIDs :
          KnowsID(c, id) /\ LeaseStep(ReleaseLease(c, id))
    \/ \E k \in SweepKeys : LeaseStep(RevokeLease(k.arrayID, k.pageID))
    \/ (now < TTL /\ LeaseStep(Tick))

TwoPageSpec == Init /\ [][TwoPageNext]_vars

\* the page a lease call is about: the page named, or the page of the lease
\* named
PageOfCall(r) ==
    IF r.op = "ReleaseLease"
    THEN {k \in LeaseKeys : leases[k] = r.arg.id}
    ELSE {r.arg.key}

\* C35: per-page independence of leases.  AcquireLease, ReleaseLease and
\* RevokeLease on a lease of page p leave the table entry and the lease record
\* (type, owner, expiry) of every other page as they were, and AcquireLease on
\* p fails exactly when p itself has a Write lease, or has a lease and a Write
\* lease is requested, whatever the other pages hold.
PageIndependence ==
    [][ret'.op \in {"AcquireLease", "ReleaseLease", "RevokeLease"} =>
          /\ \A k \in LeaseKeys \ PageOfCall(ret') :
                /\ leases'[k] = leases[k]
                /\ leases[k] # 0 => heap'[leases[k]] = heap[leases[k]]
          /\ ret'.op = "AcquireLease" =>
                LET p == ret'.arg.key
                IN  ret'.err = "conflict" <=>
                       /\ leases[p] # 0
                       /\ \/ heap[leases[p]].Type = WriteLease
                          \/ ret'.arg.type = WriteLease]_vars

\* A Write lease on page 1 has just been refused because of the Read lease
\* page 1 has, while page 0 holds a Write lease of its own.
PageIndependenceWitness ==
    /\ ret.op = "AcquireLease"
    /\ ret.err = "conflict"
    /\ ret.arg.key = leaseKey(1, 1)
    /\ LeaseAt(leaseKey(1, 1)) # NoLease
    /\ LeaseAt(leaseKey(1, 1)).Type = ReadLease
    /\ LeaseAt(leaseKey(1, 0)) # NoLease
    /\ LeaseAt(leaseKey(1, 0)).Type = WriteLease

\* C37: ReleaseLease affects only the lease it names.  After a successful
\* ReleaseLease every lease another requester was granted and that was in the
\* table is still in the table and validates as before, another requester's
\* Read lease on the same page included.
ReleaseAffectsOnlyNamed ==
    [][(ret'.op = "ReleaseLease" /\ ret'.err = "ok") =>
          \A c \in Clients \ {ret'.arg.caller} : \A g \in held[c] :
              (\E k \in LeaseKeys : leases[k] = g.id)
                 => /\ \E k \in LeaseKeys : leases'[k] = g.id
                    /\ heap'[g.id] = heap[g.id]]_vars

\* C40: lease table invariant.  The table holds at most one lease per
\* (array, page); each record's ArrayID and PageID are those of the key it is
\* stored under; the LeaseIDs in the table are pairwise distinct, so that an id
\* names at most one record.
LeaseTableInvariant ==
    /\ \A k \in LeaseKeys :
          leases[k] # 0 =>
             /\ heap[leases[k]].ID = leases[k]
             /\ heap[leases[k]].ArrayID = k.arrayID
             /\ heap[leases[k]].PageID = k.pageID
    /\ \A k1, k2 \in LeaseKeys :
          (leases[k1] # 0 /\ leases[k1] = leases[k2]) => k1 = k2
    /\ \A id \in LeaseIDs :
          Cardinality({k \in LeaseKeys : leases[k] = id}) <= 1

\* Both pages have a lease, under different ids.
LeaseTableWitness ==
    /\ leases[leaseKey(1, 0)] # 0
    /\ leases[leaseKey(1, 1)] # 0
    /\ leases[leaseKey(1, 0)] # leases[leaseKey(1, 1)]
    /\ ret.op = "AcquireLease"

----------------------------------------------------------------------------
(* Page cache: specification and properties *)

CacheSpecInit ==
    /\ LeaseInit /\ CacheInit /\ MMInit /\ GLPInit /\ StoreInit /\ GroupInit
    /\ ReduceInit /\ SchedulerInit
    /\ ret = NoRet

CacheNext ==
    \/ \E k \in CacheKeys : CacheStep(CacheGet(k.arrayID, k.pageID))
    \/ \E k \in CacheKeys, p \in PagePtrs :
          CacheStep(CachePut(k.arrayID, k.pageID, p))
    \/ \E k \in CacheKeys : CacheStep(CacheRemove(k.arrayID, k.pageID))
    \/ CacheStep(CacheSize)
    \/ CacheStep(CacheCapacity)

CacheSpec == CacheSpecInit /\ [][CacheNext]_vars

\* C9: 2Q eviction order.  A Put of a new key that makes the entry count exceed
\* the capacity evicts exactly one entry, the one at the back of the once list
\* (which holds the new entry at its front), and leaves the frequent list as
\* it was; a Put that does not exceed the capacity evicts nothing; no Put ever
\* removes an entry of the frequent list while the once list is not empty.
EvictionOrder ==
    [][ret'.op = "CachePut" =>
          LET key == ret'.arg.key
              ins == <<[key |-> key, page |-> ret'.arg.page,
                        fromFreq |-> FALSE]>> \o onceList
          IN  /\ (key \notin cache /\ Cardinality(cache) + 1 > capacity)
                    => /\ onceList' = Front(ins)
                       /\ freqList' = freqList
                       /\ cache' = (cache \cup {key}) \ {ins[Len(ins)].key}
                       /\ Cardinality(cache') = Cardinality(cache)
              /\ (key \notin cache /\ Cardinality(cache) + 1 <= capacity)
                    => /\ onceList' = ins
                       /\ freqList' = freqList
                       /\ cache' = cache \cup {key}
              /\ (\E i \in 1 .. Len(freqList) : freqList[i].key \notin cache')
                    => Len(ins) = 0]_vars

\* Pages 0 and 1 were put into a capacity-2 cache, page 0 was touched a second
\* time, and the Put of page 2 has just evicted page 1, the single-touch
\* entry, leaving {0, 2} with page 0 in the frequent list.
EvictionOrderWitness ==
    /\ capacity = 2
    /\ ret.op = "CachePut"
    /\ ret.arg.key = cacheKey(1, 2)
    /\ ret.val = {cacheKey(1, 1)}
    /\ cache = {cacheKey(1, 0), cacheKey(1, 2)}
    /\ Len(freqList) = 1
    /\ freqList[1].key = cacheKey(1, 0)
    /\ Len(onceList) = 1
    /\ onceList[1].key = cacheKey(1, 2)

\* C10: the cache is bounded.  In every reachable state Size() is at most the
\* capacity the cache was built with, and so is the number of list entries.
CacheBounded ==
    /\ Cardinality(cache) <= capacity
    /\ Len(onceList) + Len(freqList) <= capacity

\* A Put into a full cache has just evicted an entry and the cache holds
\* exactly capacity entries.
CacheBoundedWitness ==
    /\ capacity >= 1
    /\ ret.op = "CachePut"
    /\ ret.val # {}
    /\ Cardinality(cache) = capacity

\* C11: Put then Get.  With capacity >= 1, a Get issued right after a Put of
\* the same key is a hit that returns the page that was put; a Get issued right
\* after the key was removed, or was evicted by a Put, is a miss, and so is a
\* Get on a cache into which nothing was put.
PutThenGet ==
    [][(ret'.op = "CacheGet" /\ capacity >= 1) =>
          LET key == ret'.arg.key
          IN  /\ (ret.op = "CachePut" /\ ret.arg.key = key)
                    => (ret'.err = "ok" /\ ret'.val = ret.arg.page)
              /\ (ret.op = "CacheRemove" /\ ret.arg.key = key)
                    => ret'.err = "miss"
              /\ (ret.op = "CachePut" /\ key \in ret.val /\ ret.arg.key # key)
                    => ret'.err = "miss"
              /\ ret.op = "none" => ret'.err = "miss"]_vars

\* C12: promotion on Get.  A Get that hits puts the entry at the front of the
\* frequent list, taking it out of the once list if it was there; the other
\* entries keep their relative order in both lists and the set of cached keys
\* is unchanged.  A Get that misses changes nothing.
PromotionOnGet ==
    [][ret'.op = "CacheGet" =>
          LET key == ret'.arg.key
          IN  IF key \notin cache
              THEN ret'.err = "miss" /\ UNCHANGED cacheVars
              ELSE /\ ret'.err = "ok"
                   /\ ret'.val = EntryOf(key).page
                   /\ freqList' = <<[EntryOf(key) EXCEPT !.fromFreq = TRUE]>>
                                      \o RemoveKey(freqList, key)
                   /\ onceList' = RemoveKey(onceList, key)
                   /\ EntryOf(key).fromFreq => onceList' = onceList
                   /\ Len(onceList') + Len(freqList')
                         = Len(onceList) + Len(freqList)
                   /\ UNCHANGED <<cache, capacity>>]_vars

\* A Get has just hit: its entry is at the front of a frequent list that holds
\* two more entries behind it, or one more with a further entry in once.
PromotionOnGetWitness ==
    /\ ret.op = "CacheGet"
    /\ ret.err = "ok"
    /\ Cardinality(cache) = 3
    /\ Len(freqList) >= 2
    /\ freqList[1].key = ret.arg.key

\* C33: Put on a key already in the cache.  It replaces the stored page and
\* promotes the entry as Get does: the entry, with the new page, goes to the
\* front of the frequent list and leaves the once list if it was there; Size
\* and the set of cached keys do not change, nothing is evicted and the other
\* entries keep their relative order in both lists.
PutOnExistingKey ==
    [][(ret'.op = "CachePut" /\ ret'.arg.key \in cache) =>
          LET key == ret'.arg.key
          IN  /\ freqList' = <<[key |-> key, page |-> ret'.arg.page,
                                fromFreq |-> TRUE]>>
                                 \o RemoveKey(freqList, key)
              /\ onceList' = RemoveKey(onceList, key)
              /\ EntryOf(key).fromFreq => onceList' = onceList
              /\ ret'.val = {}
              /\ Cardinality(cache') = Cardinality(cache)
              /\ UNCHANGED <<cache, capacity>>]_vars

\* A Put has just replaced the page of an entry that was in the cache with a
\* different page: the entry is at the front of the frequent list with the new
\* page, and two other entries are still cached.
PutOnExistingKeyWitness ==
    /\ ret.op = "CachePut"
    /\ ret.val = {}
    /\ Cardinality(cache) = 3
    /\ Len(freqList) >= 1
    /\ freqList[1].key = ret.arg.key
    /\ freqList[1].page = ret.arg.page
    /\ \E i \in 1 .. Len(onceList) : onceList[i].page # ret.arg.page

\* C34: Remove, Size and Capacity.  Size and Capacity change nothing and
\* return the number of cached keys and the capacity; Remove deletes exactly
\* the entry of its key, from whichever list holds it, and leaves the other
\* entries of both lists in place and in order; Remove of an absent key
\* changes nothing; the capacity never changes.
AccessorsFrame ==
    [][/\ ret'.op = "CacheSize"
             => (UNCHANGED cacheVars /\ ret'.val = Cardinality(cache))
       /\ ret'.op = "CacheCapacity"
             => (UNCHANGED cacheVars /\ ret'.val = capacity)
       /\ ret'.op = "CacheRemove"
             => LET key == ret'.arg.key
                IN  /\ cache' = cache \ {key}
                    /\ onceList' = RemoveKey(onceList, key)
                    /\ freqList' = RemoveKey(freqList, key)
                    /\ Len(onceList') + Len(freqList') = Cardinality(cache')
                    /\ key \notin cache => UNCHANGED cacheVars
       /\ capacity' = capacity]_vars

\* Remove has just deleted an entry from a cache of three: the other two are
\* still cached, one of them in the frequent list.
AccessorsFrameWitness ==
    /\ ret.op = "CacheRemove"
    /\ Cardinality(cache) = 2
    /\ ret.arg.key \notin cache
    /\ Len(freqList) >= 1
    /\ Len(onceList) + Len(freqList) = 2

\* the keys of the entries of a list, in order
KeysOf(l) == [i \in 1 .. Len(l) |-> l[i].key]

\* C39: cache structural invariant.  The key index and the two lists agree:
\* every indexed key has exactly one entry, in exactly one of the two lists;
\* every list entry is indexed; an entry's frequent flag is true exactly when
\* it is in the frequent list; Size is the sum of the two list lengths.
CacheStructure ==
    LET all == KeysOf(onceList) \o KeysOf(freqList)
    IN  /\ \A key \in cache :
              Cardinality({i \in 1 .. Len(all) : all[i] = key}) = 1
        /\ \A i \in 1 .. Len(all) : all[i] \in cache
        /\ \A i \in 1 .. Len(onceList) : ~onceList[i].fromFreq
        /\ \A i \in 1 .. Len(freqList) : freqList[i].fromFreq
        /\ Cardinality(cache) = Len(onceList) + Len(freqList)

\* The cache is full, with entries in both lists.
CacheStructureWitness ==
    /\ Cardinality(cache) = 3
    /\ Len(onceList) >= 1
    /\ Len(freqList) >= 1
    /\ ret.op \in {"CachePut", "CacheGet"}

----------------------------------------------------------------------------
(* Shared array: specifications and properties *)

\* The Array object the nodes' sharedArray handles wrap: one array of one
\* element, created by either node.  Each goroutine runs the Get of either
\* node, and the RequestPage inside it, one critical section at a time.
SharedArrays == {1}

ArrayNext ==
    \/ \E n \in Nodes :
          nextArrayID \in SharedArrays /\ ArrayStep(CreateArray(n, 1))
    \/ \E a \in SharedArrays, n \in Nodes : ArrayStep(SetPageOwner(a, 0, n))
    \/ \E g \in Goroutines, n \in Nodes, a \in SharedArrays, i \in Indexes :
          PageStep(Get(g, n, a, i))
    \/ \E n \in Nodes, a \in SharedArrays, i \in Indexes, v \in Values :
          ArrayStep(Set(n, a, i, v))
    \/ \E n \in Nodes, a \in SharedArrays : ArrayStep(Sync(n, a))
    \/ \E n \in Nodes, a \in SharedArrays : ArrayStep(Close(n, a))
    \/ \E n \in Nodes, a \in SharedArrays : ArrayStep(GetArray(n, a))
    \/ \E g \in Goroutines : PageStep(RequestPageGetArray(g))
    \/ \E g \in Goroutines : PageStep(RequestPageOwner(g))
    \/ \E g \in Goroutines : PageStep(GLPCheck(g))
    \/ \E g \in Goroutines : PageStep(GLPStore(g))

ArraySpec == Init /\ [][ArrayNext]_vars

\* Arrays are created and synced while the nodes take and lose leases on
\* their pages through the lease manager.
SyncLeaseNext ==
    \/ \E n \in Nodes, l \in Lengths : ArrayStep(CreateArray(n, l))
    \/ \E n \in Nodes, a \in SharedArrays : ArrayStep(Sync(n, a))
    \/ \E k \in HotKeys, t \in LeaseTypes, c \in Nodes, v \in Versions :
          LeaseStep(AcquireLease(k.arrayID, k.pageID, t, c, v))
    \/ \E k \in HotKeys : LeaseStep(RevokeLease(k.arrayID, k.pageID))

SyncLeaseSpec == Init /\ [][SyncLeaseNext]_vars

\* C6: Sync visibility.  Once a Set(i, v) returned nil and a Sync by the same
\* node returned nil after it, a Get(i) issued from a different node succeeds
\* and the page it returns holds v at element i.
SyncVisibility ==
    [][ret'.op = "Get" =>
          LET w == ret'.arg.after
          IN  w.state = "synced"
                 => /\ ret'.err = "ok"
                    /\ ret'.val.page.Data[ret'.arg.i] = w.v]_vars

\* C27: an array's Version is changed only by a completed Sync.  CreateArray
\* sets it to 1; GetArray, SetPageOwner, RequestPage, Get, Set and Close leave
\* the Version of every array unchanged, and no step decreases it.
VersionFrame ==
    [][/\ ret'.op = "CreateArray" => arrayObj'[ret'.val].Version = 1
       /\ \A a \in 1 .. MaxArrays :
             arrayObj[a] # NoArray =>
                 /\ arrayObj'[a] # NoArray
                 /\ arrayObj'[a].Version >= arrayObj[a].Version
                 /\ ret'.op # "Sync"
                       => arrayObj'[a].Version = arrayObj[a].Version]_vars

\* A Set has just been accepted on an array whose page has an owner, and the
\* array still has the Version it was created with.
VersionFrameWitness ==
    /\ ret.op = "Set"
    /\ ret.err = "ok"
    /\ arrayObj[ret.arg.array].PageMapping[0] # NoNode
    /\ arrayObj[ret.arg.array].Version = 1

\* C7: Sync bumps the version.  When Sync returns nil the array's Version is
\* strictly greater than it was when the Sync was invoked.
SyncBumpsVersion ==
    [][(ret'.op = "Sync" /\ ret'.err = "ok") =>
          arrayObj'[ret'.arg.array].Version
              > arrayObj[ret'.arg.array].Version]_vars

\* C8: Sync releases write leases.  In the state in which Sync returns nil, no
\* Write lease owned by the syncing node is in the lease table for any page of
\* the synced array.
SyncReleasesWriteLeases ==
    [][(ret'.op = "Sync" /\ ret'.err = "ok") =>
          \A k \in LeaseKeys :
              (k.arrayID = ret'.arg.array /\ leases'[k] # 0) =>
                  ~(/\ heap'[leases'[k]].Type = WriteLease
                    /\ heap'[leases'[k]].Owner = ret'.arg.node)]_vars

----------------------------------------------------------------------------
(* Memory manager: specification and properties *)

\* The node the pages are assigned to: requests come from it and from the
\* other node.
PageHome == "n1"

MMNext ==
    \/ \E n \in Nodes, l \in Lengths : ArrayStep(CreateArray(n, l))
    \/ \E n \in Nodes, a \in 1 .. MaxArrays : ArrayStep(GetArray(n, a))
    \/ \E n \in Nodes, a \in 1 .. MaxArrays : ArrayStep(DeleteArray(n, a))
    \/ \E a \in 1 .. MaxArrays : ArrayStep(SetPageOwner(a, 0, PageHome))

MMSpec == Init /\ [][MMNext]_vars

\* Two goroutines request page 0 of the shared array from either node while
\* the array is created, its page is given an owner and it is deleted.
RequestPageNext ==
    \/ \E n \in Nodes, l \in Lengths :
          nextArrayID \in SharedArrays /\ ArrayStep(CreateArray(n, l))
    \/ \E n \in Nodes, a \in SharedArrays : ArrayStep(DeleteArray(n, a))
    \/ \E a \in SharedArrays : ArrayStep(SetPageOwner(a, 0, PageHome))
    \/ \E g \in Goroutines, n \in Nodes, a \in SharedArrays, v \in Versions :
          PageStep(RequestPageCall(g, n, a, 0, v))
    \/ \E g \in Goroutines : PageStep(RequestPageGetArray(g))
    \/ \E g \in Goroutines : PageStep(RequestPageOwner(g))
    \/ \E g \in Goroutines : PageStep(GLPCheck(g))
    \/ \E g \in Goroutines : PageStep(GLPStore(g))

RequestPageSpec == Init /\ [][RequestPageNext]_vars

\* C23: RequestPage(array, page, version) returns an error, materialises no
\* page and leaves the local page tables, the array registry and the arrays
\* unchanged when the array is unknown to the node or the page has no owner:
\* a call that finds the array unregistered when it looks it up, or the page
\* without owner when it looks the owner up, returns the error from that
\* step, and a call that returns an error has built no page and changed
\* nothing.
RequestPageErrors ==
    [][\A g \in Goroutines :
          LET c == calls[g]
          IN  (c.op = "RequestPage" /\ calls'[g] # c) =>
                 /\ (c.pc = "getarray" /\ c.key.arrayID \notin arrays[c.node])
                       => (ret'.op = "RequestPage"
                              /\ ret'.err = "array not found")
                 /\ (/\ c.pc = "owner"
                     /\ arrayObj[c.key.arrayID].PageMapping[c.key.pageID]
                           = NoNode)
                       => (ret'.op = "RequestPage"
                              /\ ret'.err = "page owner not found")
                 /\ (calls'[g].pc = "idle" /\ ret'.err # "ok")
                       => /\ ret'.arg = c.arg
                          /\ ret'.val = 0
                          /\ c.pc \in {"getarray", "owner"}
                          /\ nextPage' = nextPage
                          /\ UNCHANGED mmVars]_vars

\* RequestPage has just failed for a registered array whose page has no owner,
\* while another goroutine's request for a page of the node is in progress.
RequestPageErrorsWitness ==
    /\ ret.op = "RequestPage"
    /\ ret.err = "page owner not found"
    /\ ret.arg.array \in arrays[ret.arg.node]
    /\ pages[ret.arg.node] = <<>>
    /\ \E g \in Goroutines : calls[g].pc \in {"getarray", "owner"}

\* C24: CreateArray(length) registers a descriptor whose ArrayID differs from
\* that of every other array, with Length = length, the page count of that
\* length, no page owner and no page materialised; GetArray(ID) returns that
\* descriptor as long as the array is registered.
CreateArrayContract ==
    [][/\ ret'.op = "CreateArray" =>
             LET id == ret'.val
                 n  == ret'.arg.node
             IN  /\ \A m \in Nodes : id \notin arrays[m]
                 /\ arrayObj[id] = NoArray
                 /\ arrays' = [arrays EXCEPT ![n] = @ \cup {id}]
                 /\ arrayObj'[id].ID = id
                 /\ arrayObj'[id].Length = ret'.arg.length
                 /\ arrayObj'[id].NumPages * PageSize >= ret'.arg.length * 8
                 /\ (arrayObj'[id].NumPages - 1) * PageSize
                       < ret'.arg.length * 8
                 /\ \A p \in PageIDs : arrayObj'[id].PageMapping[p] = NoNode
                 /\ \A a \in 1 .. MaxArrays :
                       a # id => arrayObj'[a] = arrayObj[a]
                 /\ pages' = pages
       /\ (ret'.op = "GetArray" /\ ret'.arg.array \in arrays[ret'.arg.node])
             => /\ ret'.err = "ok"
                /\ ret'.val = arrayObj[ret'.arg.array]
                /\ UNCHANGED mmVars]_vars

\* GetArray has just returned the descriptor of the second array created, one
\* of whose pages was given an owner after the creation.
CreateArrayWitness ==
    /\ ret.op = "GetArray"
    /\ ret.err = "ok"
    /\ ret.val.ID = 2
    /\ ret.val = arrayObj[2]
    /\ ret.val.PageMapping[0] # NoNode

\* C25: DeleteArray(id) of a registered array removes it, so that GetArray(id)
\* fails afterwards; DeleteArray of an id that is not registered, one already
\* deleted included, returns the not-found error and leaves the registry
\* unchanged; the other arrays are never affected.
DeleteArrayContract ==
    [][/\ ret'.op = "DeleteArray" =>
             LET n == ret'.arg.node
                 a == ret'.arg.array
             IN  /\ IF a \in arrays[n]
                    THEN /\ ret'.err = "ok"
                         /\ arrays' = [arrays EXCEPT ![n] = @ \ {a}]
                    ELSE /\ ret'.err = "array not found"
                         /\ arrays' = arrays
                 /\ arrayObj' = arrayObj
       /\ (/\ ret.op = "DeleteArray"
           /\ ret.err = "ok"
           /\ ret'.op \in {"GetArray", "DeleteArray"}
           /\ ret'.arg = ret.arg)
             => ret'.err = "array not found"]_vars

\* A DeleteArray of an array that was created and deleted has just failed,
\* and the node's other array is still registered.
DeleteArrayWitness ==
    /\ ret.op = "DeleteArray"
    /\ ret.err = "array not found"
    /\ ret.arg.array < nextArrayID
    /\ arrays[ret.arg.node] # {}
    /\ \A m \in Nodes : ret.arg.array \notin arrays[m]

\* Arrays are created and their pages given owners while the nodes take and
\* lose leases on the pages.
OwnershipNext ==
    \/ \E n \in Nodes, l \in Lengths : ArrayStep(CreateArray(n, l))
    \/ \E a \in SharedArrays, n \in Nodes : ArrayStep(SetPageOwner(a, 0, n))
    \/ \E k \in HotKeys, t \in LeaseTypes, c \in Nodes, v \in Versions :
          LeaseStep(AcquireLease(k.arrayID, k.pageID, t, c, v))
    \/ \E k \in HotKeys : LeaseStep(RevokeLease(k.arrayID, k.pageID))

OwnershipSpec == Init /\ [][OwnershipNext]_vars

\* C26: page ownership.  Each page of an array is unmapped or mapped to one
\* node, and the owner recorded for a page changes only in a step taken while
\* the lease table holds a lease on that page.
PageOwnership ==
    [][\A a \in 1 .. MaxArrays : \A p \in PageIDs :
          arrayObj'[a] # NoArray =>
              /\ arrayObj'[a].PageMapping[p] \in Nodes \cup {NoNode}
              /\ (/\ arrayObj[a] # NoArray
                  /\ arrayObj'[a].PageMapping[p] # arrayObj[a].PageMapping[p])
                    => leases[leaseKey(a, p)] # 0]_vars

----------------------------------------------------------------------------
(* Local page materialisation: specification and properties *)

LocalPageNext ==
    \/ \E g \in Goroutines, n \in Nodes, k \in LocalKeys, v \in Versions :
          PageStep(GLPCall(g, n, k.arrayID, k.pageID, v))
    \/ \E g \in Goroutines : PageStep(GLPCheck(g))
    \/ \E g \in Goroutines : PageStep(GLPStore(g))

LocalPageSpec == Init /\ [][LocalPageNext]_vars

\* C13: local page materialisation is idempotent.  Every getLocalPage call
\* that returns a page for a key of a node returns the instance the node's
\* page table holds for that key, the table never replaces the instance it
\* holds for a key, and so all calls for the key return the same instance.
LocalPageIdempotent ==
    [][/\ \A n \in Nodes : \A k \in DOMAIN pages[n] :
             /\ k \in DOMAIN pages'[n]
             /\ pages'[n][k].addr = pages[n][k].addr
       /\ \A g \in Goroutines :
             (calls[g].op = "getLocalPage" /\ calls'[g].pc = "idle") =>
                 /\ ret'.op = "getLocalPage"
                 /\ ret'.err = "ok"
                 /\ ret'.val.addr = pages'[calls[g].node][calls[g].key].addr
                 /\ (/\ ret.op = "getLocalPage"
                     /\ ret.arg.node = ret'.arg.node
                     /\ ret.arg.key = ret'.arg.key)
                       => ret'.val.addr = ret.val.addr]_vars

----------------------------------------------------------------------------
(* Page storage: specification and properties *)

StorageNext ==
    \/ \E t \in Targets(8), v \in Int64Values : StorageStep(SetInt64(t, v))
    \/ \E t \in Targets(8) : StorageStep(GetInt64(t))
    \/ \E t \in Targets(4), v \in Float32Values : StorageStep(SetFloat32(t, v))
    \/ \E t \in Targets(4) : StorageStep(GetFloat32(t))

StorageSpec == Init /\ [][StorageNext]_vars

\* The access t, of an element of the given size, lies inside the page: as
\* integers, 0 <= offset and offset + size <= PageSize, where the offset of an
\* access through Page is elementIndex * size.
InPage(t, size) ==
    IF t.via = "Page"
    THEN ~IsNegW(t.index) /\ ~GtS(t.index, WordOfNat(PageSize \div size - 1))
    ELSE ~IsNegW(t.offset) /\ ~GtS(t.offset, WordOfNat(PageSize - size))

SizeOf(op) == IF op \in {"SetInt64", "GetInt64"} THEN 8 ELSE 4

\* C14: int64 storage round trip.  For an element inside the page, SetInt64
\* followed by GetInt64 of the same element returns the value that was set,
\* negative, minimum and maximum values included; a write that does not
\* overlap an element leaves the int64 read from it unchanged, and reads
\* change no byte.
Int64RoundTrip ==
    [][/\ (/\ ret.op = "SetInt64"
           /\ ret'.op = "GetInt64"
           /\ ret'.arg.at = ret.arg.at
           /\ InPage(ret.arg.at, 8))
             => (ret.err = "ok" /\ ret'.err = "ok" /\ ret'.val = ret.arg.v)
       /\ (ret'.op \in {"SetInt64", "SetFloat32"} /\ ret'.err = "ok")
             => \A t \in Targets(8) :
                   (/\ InPage(t, 8)
                    /\ LET o == NatOfWord(t.offset)
                           w == NatOfWord(ret'.arg.at.offset)
                       IN  o + 8 <= w \/ w + SizeOf(ret'.op) <= o)
                     => getInt64(store', t.offset).val
                          = getInt64(store, t.offset).val
       /\ ret'.op \in {"GetInt64", "GetFloat32"} => store' = store]_vars

\* byte i (0 = least significant) of the two's-complement 64-bit value v
LittleEndianByte(v, i) ==
    IF i % 2 = 0 THEN v[i \div 2 + 1] % 256 ELSE v[i \div 2 + 1] \div 256

\* C36: a successful SetInt64 writes exactly 8 bytes.  The bytes
\* [offset, offset+8) hold the little-endian two's-complement representation
\* of v, least significant byte first, every other byte of the page is
\* unchanged, and writing element i through the page changes the value read
\* for no element j # i.
SetInt64Frame ==
    [][(ret'.op = "SetInt64" /\ ret'.err = "ok") =>
          LET at  == ret'.arg.at
              off == NatOfWord(at.offset)
          IN  /\ \A i \in 0 .. 7 :
                    ByteAt(store', off + i) = LittleEndianByte(ret'.arg.v, i)
              /\ \A o \in (DOMAIN store \cup DOMAIN store') \ (off .. off + 7) :
                    ByteAt(store', o) = ByteAt(store, o)
              /\ at.via = "Page" =>
                    \A t \in Targets(8) :
                       (t.via = "Page" /\ InPage(t, 8) /\ t.index # at.index)
                          => getInt64(store', t.offset).val
                               = getInt64(store, t.offset).val]_vars

\* C29: float32 storage round trip.  For an element inside the page,
\* SetFloat32 followed by GetFloat32 of the same element returns the value that
\* was set, non-integral values included.
Float32RoundTrip ==
    [][(/\ ret.op = "SetFloat32"
        /\ ret'.op = "GetFloat32"
        /\ ret'.arg.at = ret.arg.at
        /\ InPage(ret.arg.at, 4))
          => (/\ ret.err = "ok"
              /\ ret'.err = "ok"
              /\ ret'.val = FloatNorm(ret.arg.v.m, ret.arg.v.e))]_vars

\* GetInt64 of the last element of the page has just returned the minimum
\* int64, which a SetInt64 stored there.
Int64RoundTripWitness ==
    /\ ret.op = "GetInt64"
    /\ ret.err = "ok"
    /\ ret.arg.at.via = "Page"
    /\ ret.arg.at.index = WordOfInt(PageSize \div 8 - 1)
    /\ ret.val = MinInt64

\* C15: bounds checking.  A typed accessor succeeds exactly when its access
\* lies inside the page; otherwise it returns the out-of-bounds error and
\* leaves every byte of the page unchanged.
BoundsChecking ==
    [][ret'.op \in {"SetInt64", "GetInt64", "SetFloat32", "GetFloat32"} =>
          IF InPage(ret'.arg.at, SizeOf(ret'.op))
          THEN ret'.err = "ok"
          ELSE ret'.err = "out of bounds" /\ store' = store]_vars

----------------------------------------------------------------------------
(* Page count: specification and properties *)

MaxChunks == 60

\* Array lengths: around every multiple of half a page's worth of elements,
\* the lengths 100 and 10,000,000, and 2^60, whose byte size is 2^63
ArrayLengths ==
    {WordOfInt(k * (PageSize \div 16) + d) : k \in 0 .. MaxChunks, d \in 0 .. 1}
    \cup {WordOfInt(100), WordOfInt(10000000), <<0, 0, 0, LimbBase \div 16>>}

PageCountNext == \E l \in ArrayLengths : NewArrayPageCount(l)

PageCountSpec == Init /\ [][PageCountNext]_vars

\* ceil(length * 8 / PageSize) as an integer, for length >= 0: length / 8192
\* rounded up
CeilPages(length) ==
    LET x == <<length[1], length[2], length[3], length[4], 0>>
        q == [i \in 1 .. 4 |-> x[i] \div 8192 + (x[i + 1] % 8192) * 8]
    IN  IF length[1] % 8192 = 0 THEN q ELSE AddW(q, WordOfNat(1))

\* C28: page-count formula.  For every array length L >= 0 the new array has
\* NumPages = ceil(L * 8 / 65536), which PageCount() returns; L = 100 gives 1
\* page and L = 10,000,000 gives 1221.
PageCountFormula ==
    ret.op = "NewArray" =>
        /\ ret.val = CeilPages(ret.arg.length)
        /\ ret.arg.length = WordOfInt(100) => ret.val = WordOfInt(1)
        /\ ret.arg.length = WordOfInt(10000000) => ret.val = WordOfInt(1221)
----------------------------------------------------------------------------
(* Scheduler: specification and properties *)

ParallelForNext ==
    \/ \E n \in 0 .. MaxN, m \in -1 .. MaxLimit :
          \E fails \in SUBSET (0 .. n - 1) :
             GroupStep(ParallelFor(n, fails, m))
    \/ GroupStep(CancelContext)
    \/ GroupStep(GroupGo)
    \/ GroupStep(GroupLoopEnd)
    \/ \E j \in TaskIndexes : GroupStep(TaskSelect(j))
    \/ \E j \in TaskIndexes : GroupStep(TaskReturn(j))
    \/ GroupStep(GroupWait)

ParallelForSpec == Init /\ [][ParallelForNext]_vars

\* C30: ParallelFor invokes fn exactly once per index.  When the context is
\* not cancelled and fn never fails, ParallelFor returns nil, and at its return
\* fn has been invoked exactly once for every index in 0..n-1 and every
\* invocation has finished, in every schedule and for every maxConcurrency; no
\* index is ever invoked twice, nor an index outside 0..n-1.
ParallelForContract ==
    /\ \A j \in TaskIndexes :
          group.count[j] <= (IF j < group.n THEN 1 ELSE 0)
    /\ (ret.op = "ParallelFor" /\ ret.arg.fails = {} /\ ~ret.arg.cancelled)
          => /\ ret.err = "nil"
             /\ \A j \in 0 .. ret.arg.n - 1 :
                   ret.val[j] = 1 /\ group.task[j] = "done"

\* ParallelFor(MaxN, fn, 1) has returned nil: fn never failed, the context was
\* not cancelled, one goroutine ran at a time and each index was invoked once.
ParallelForWitness ==
    /\ ret.op = "ParallelFor"
    /\ ret.arg.n = MaxN
    /\ ret.arg.fails = {}
    /\ ~ret.arg.cancelled
    /\ group.limit = 1
    /\ ret.err = "nil"
    /\ \A j \in TaskIndexes : ret.val[j] = 1
----------------------------------------------------------------------------
(* Scheduler: Reduce specification and properties *)

ReduceNext ==
    \/ \E n \in 0 .. MaxLen, m \in -1 .. MaxLimit :
          \E fails \in SUBSET (0 .. n - 1) :
             ReduceStep(Reduce(n, fails, m))
    \/ ReduceStep(ReduceCancel)
    \/ ReduceStep(ReduceGo)
    \/ ReduceStep(ReduceLoopEnd)
    \/ \E j \in ReduceIndexes : ReduceStep(ReduceTaskSelect(j))
    \/ \E j \in ReduceIndexes : ReduceStep(MapTaskReturn(j))
    \/ ReduceStep(ReduceAfterMap)
    \/ \E j \in ReduceIndexes : ReduceStep(ReduceTaskLock(j))
    \/ \E j \in ReduceIndexes : ReduceStep(ReduceTaskRead(j))
    \/ \E j \in ReduceIndexes : ReduceStep(ReduceTaskWrite(j))
    \/ ReduceStep(ReduceWait)

ReduceSpec == Init /\ [][ReduceNext]_vars

\* reduceFn folded over mapFn(in[0]), ..., mapFn(in[n-1]), left to right
RECURSIVE FoldOf(_)
FoldOf(n) ==
    IF n = 1 THEN mapFn(InputOf(n)[0])
    ELSE reduceFn(FoldOf(n - 1), mapFn(InputOf(n)[n - 1]))

\* C31, as stated: with a mapFn that never fails, Reduce returns nil with the
\* fold of reduceFn over the mapped elements in *result, every mapped element
\* combined exactly once (the zero value for an empty input), whatever the
\* schedule and maxConcurrency.
ReduceDeterminismAsStated ==
    (ret.op = "Reduce" /\ ret.arg.fails = {}) =>
        /\ ret.err = "nil"
        /\ red.result = IF ret.arg.n > 0 THEN FoldOf(ret.arg.n) ELSE 0
        /\ \A j \in 0 .. ret.arg.n - 1 : red.combined[j] = 1

\* C31, amended: Reduce determinism.  With a mapFn that never fails and a
\* context that is not cancelled before Reduce returns, Reduce returns nil;
\* whenever it returns nil on a non-empty input, *result is the fold of
\* reduceFn over the mapped elements and every mapped element has been
\* combined exactly once, whatever the schedule and maxConcurrency; on an
\* empty input it stores the zero value and returns nil.
ReduceDeterminism ==
    ret.op = "Reduce" =>
        /\ (ret.arg.fails = {} /\ ~ret.arg.cancelled) => ret.err = "nil"
        /\ (ret.err = "nil" /\ ret.arg.n > 0)
              => /\ ret.val = FoldOf(ret.arg.n)
                 /\ red.result = ret.val
                 /\ \A j \in 0 .. ret.arg.n - 1 : red.combined[j] = 1
        /\ ret.arg.n = 0 => (ret.err = "nil" /\ ret.val = 0 /\ red.result = 0)

\* Reduce of MaxLen elements with a limit of 2 has returned nil with the fold
\* in *result.
ReduceWitness ==
    /\ ret.op = "Reduce"
    /\ ret.arg.n = MaxLen
    /\ ret.arg.fails = {}
    /\ ~ret.arg.cancelled
    /\ red.limit = 2
    /\ ret.err = "nil"
    /\ ret.val = FoldOf(MaxLen)
----------------------------------------------------------------------------
(* Scheduler: task execution, specifications and properties *)

SchedulerNext ==
    \/ SchedulerStep(Start)
    \/ SchedulerStep(Stop)
    \/ SchedulerStep(CancelScheduler)
    \/ \E t \in SchedTasks : SchedulerStep(SubmitRegister(t))
    \/ \E t \in SchedTasks : SchedulerStep(SubmitSend(t))
    \/ \E t \in SchedTasks : SchedulerStep(SubmitPanic(t))
    \/ \E t \in SchedTasks : SchedulerStep(SubmitCancelled(t))
    \/ SchedulerStep(RunReceive)
    \/ SchedulerStep(RunClosed)
    \/ SchedulerStep(RunCancelled)
    \/ \E t \in SchedTasks : SchedulerStep(executeTask(t))
    \/ \E t \in SchedTasks : SchedulerStep(RemoveTask(t))

SchedulerSpec == Init /\ [][SchedulerNext]_vars

\* The run loop and the executeTask goroutines are goroutines of their own:
\* each takes its next step when it can.
SchedulerFairSpec ==
    /\ SchedulerSpec
    /\ WF_vars(SchedulerStep(RunReceive))
    /\ \A t \in SchedTasks :
          /\ WF_vars(SchedulerStep(executeTask(t)))
          /\ WF_vars(SchedulerStep(RemoveTask(t)))

\* task t has been executed once, its result is on its Result channel and it
\* is no longer the task registered under its ID
Completed(t) ==
    /\ sched.st[t] = "done"
    /\ sched.runs[t] = 1
    /\ sched.result[t] = <<FunctionResult(t)>>
    /\ sched.tasks[TaskID(t)] # t

\* C32: scheduler progress.  While the scheduler is started, its context is
\* not cancelled and Stop has not been called, every task for which SubmitTask
\* returned nil is eventually executed, exactly once, the value its Function
\* returned is delivered on its Result channel (when that has room for it) and
\* the task is then removed from the task table; no task is ever executed
\* twice.
SchedulerProgress ==
    /\ [](\A t \in SchedTasks : sched.runs[t] <= 1)
    /\ \A t \in SchedTasks :
          (sched.st[t] = "queued" /\ sched.run = "running" /\ ResultCap(t) >= 1)
             ~> (Completed(t) \/ sched.ctxDone \/ sched.closed)

\* t3, submitted while the scheduler ran uncancelled and unstopped, has been
\* executed once and its error delivered.
SchedulerProgressWitness ==
    /\ Completed("t3")
    /\ sched.run = "running"
    /\ ~sched.ctxDone
    /\ ~sched.closed

\* C38: cancellation leaves no partial state.  A SubmitTask that returns the
\* context's error leaves the task unregistered in the task table.
SubmitCancelLeavesNoTask ==
    [][\A t \in SchedTasks :
          (sched.st[t] = "registered" /\ sched'.st[t] = "rejected")
             => sched'.tasks[TaskID(t)] # t]_vars
====
